---- MODULE Spec2Model ----
(***************************************************************************)
(* pickleassem: a pickle assembler.  The module models                     *)
(*   - the integer packing utilities (pack, p8, p16, p32, p64),            *)
(*   - the opcode table,                                                   *)
(*   - class PickleAssembler: its state (proto, verify, _payload), every   *)
(*     opcode method behind the protocol gate of _opcode_method_decorator, *)
(*     append_raw, assemble, and the util_* layer,                         *)
(*   - a stack decoder for the opcodes util_push emits, used to replay     *)
(*     assembled payloads.                                                 *)
(* Bytes are the numbers 0..255, byte strings are sequences of them, text  *)
(* strings are sequences of code points.  A Python int is a sign and a     *)
(* little-endian base-256 magnitude, so that 2**31, 2**32 and 2**2039 are  *)
(* ordinary values of the model.                                           *)
(***************************************************************************)
EXTENDS Integers, Sequences, FiniteSets, TLC

VARIABLES proto, verify, payload, calls, last

vars == <<proto, verify, payload, calls, last>>

(***************************************************************************)
(* Helpers.  A Python loop of n rounds over a state is evaluated by        *)
(* halving, each half finished before the next starts, so that a loop over *)
(* a 256-byte string stays shallow.                                        *)
(***************************************************************************)
\* the element of a one-element set: The({e(x) : x \in {v}}) is e of the value of v
The(S) == CHOOSE r \in S : TRUE

Max(a, b) == IF a >= b THEN a ELSE b

\* the elements of a sequence
Range(s) == {s[i] : i \in 1..Len(s)}

\* b'x' * n, 'x' * n
Repeat(x, n) == SubSeq([i \in 1..n |-> x], 1, n)

\* seq[::-1]
Reverse(s) == SubSeq([i \in 1..Len(s) |-> s[Len(s) + 1 - i]], 1, Len(s))

\* the concatenation of ss[lo], ..., ss[hi]
RECURSIVE FlattenRange(_, _, _)
FlattenRange(ss, lo, hi) ==
    IF lo > hi THEN <<>>
    ELSE IF lo = hi THEN ss[lo]
    ELSE FlattenRange(ss, lo, (lo + hi) \div 2) \o FlattenRange(ss, ((lo + hi) \div 2) + 1, hi)

\* b''.join(ss)
Flatten(ss) == FlattenRange(ss, 1, Len(ss))

IsPrefix(s, t) == Len(s) <= Len(t) /\ SubSeq(t, 1, Len(s)) = s

(***************************************************************************)
(* Python int.  [neg, mag]: mag is the magnitude, little-endian base 256,  *)
(* without a most significant zero digit; zero is [FALSE, <<>>].           *)
(***************************************************************************)
\* the number of digits of m up to its most significant non-zero digit
MagLen(m) ==
    IF \A i \in 1..Len(m) : m[i] = 0 THEN 0
    ELSE CHOOSE i \in 1..Len(m) : m[i] # 0 /\ \A j \in (i + 1)..Len(m) : m[j] = 0

MagNorm(m) == SubSeq(m, 1, MagLen(m))

MagDigit(m, i) == IF i <= Len(m) THEN m[i] ELSE 0

\* a < b
MagLt(a, b) ==
    \/ Len(a) < Len(b)
    \/ /\ Len(a) = Len(b)
       /\ \E i \in 1..Len(a) : a[i] < b[i] /\ \A j \in (i + 1)..Len(a) : a[j] = b[j]

\* one digit of a sum or difference: s is the digits' sum with the carry
\* (or their difference with the borrow, which is a carry of -1)
CarryStep(st, s) == [out |-> Append(st.out, s % 256), c |-> s \div 256, i |-> st.i + 1]

MagAddStep(a, b, st) == CarryStep(st, MagDigit(a, st.i) + MagDigit(b, st.i) + st.c)

RECURSIVE MagAddLoop(_, _, _, _)
MagAddLoop(a, b, st, n) ==
    IF n <= 0 THEN st
    ELSE IF n = 1 THEN MagAddStep(a, b, st)
    ELSE The({MagAddLoop(a, b, h, n - (n \div 2)) : h \in {MagAddLoop(a, b, st, n \div 2)}})

MagAdd(a, b) ==
    MagNorm(MagAddLoop(a, b, [out |-> <<>>, c |-> 0, i |-> 1], Max(Len(a), Len(b)) + 1).out)

MagSubStep(a, b, st) == CarryStep(st, (MagDigit(a, st.i) - MagDigit(b, st.i)) + st.c)

RECURSIVE MagSubLoop(_, _, _, _)
MagSubLoop(a, b, st, n) ==
    IF n <= 0 THEN st
    ELSE IF n = 1 THEN MagSubStep(a, b, st)
    ELSE The({MagSubLoop(a, b, h, n - (n \div 2)) : h \in {MagSubLoop(a, b, st, n \div 2)}})

\* a - b for a >= b
MagSub(a, b) == MagNorm(MagSubLoop(a, b, [out |-> <<>>, c |-> 0, i |-> 1], Len(a)).out)

\* one digit of a division by a small k (k * 256 below 2^31), from the most
\* significant digit down: cur is the remainder so far with the next digit
DivStep(k, st, cur) == [q |-> <<cur \div k>> \o st.q, r |-> cur % k, i |-> st.i - 1]

RECURSIVE MagDivLoop(_, _, _, _)
MagDivLoop(m, k, st, n) ==
    IF n <= 0 THEN st
    ELSE IF n = 1 THEN DivStep(k, st, (st.r * 256) + m[st.i])
    ELSE The({MagDivLoop(m, k, h, n - (n \div 2)) : h \in {MagDivLoop(m, k, st, n \div 2)}})

DivResult(fin) == [q |-> MagNorm(fin.q), r |-> fin.r]

\* quotient and remainder of m by a small k
MagDivRem(m, k) == DivResult(MagDivLoop(m, k, [q |-> <<>>, r |-> 0, i |-> Len(m)], Len(m)))

MkInt(neg, mag) == [neg |-> neg /\ mag # <<>>, mag |-> mag]

Digits4(a) == <<a % 256, (a \div 256) % 256, (a \div 65536) % 256, (a \div 16777216) % 256>>

\* the Python int of a number of the model, |n| < 2^31
Z(n) == MkInt(n < 0, MagNorm(Digits4(IF n < 0 THEN 0 - n ELSE n)))

\* 2 ** k
Pow2(k) ==
    MkInt(FALSE, SubSeq([i \in 1..((k \div 8) + 1) |-> IF i = (k \div 8) + 1 THEN 2 ^ (k % 8) ELSE 0],
                        1, (k \div 8) + 1))

\* - x
ZNeg(x) == MkInt(~x.neg, x.mag)

\* x + y
ZAdd(x, y) ==
    IF x.neg = y.neg THEN MkInt(x.neg, MagAdd(x.mag, y.mag))
    ELSE IF ~MagLt(x.mag, y.mag) THEN MkInt(x.neg, MagSub(x.mag, y.mag))
    ELSE MkInt(y.neg, MagSub(y.mag, x.mag))

\* x - y
ZSub(x, y) == ZAdd(x, ZNeg(y))

\* x <= y, x < y
ZLe(x, y) ==
    IF x.neg # y.neg THEN x.neg
    ELSE IF x.neg THEN ~MagLt(x.mag, y.mag) ELSE ~MagLt(y.mag, x.mag)

ZLt(x, y) == ZLe(x, y) /\ x # y

\* the number of the model for a Python int below 2^31 in magnitude
ZSmall(x) ==
    (IF x.neg THEN -1 ELSE 1)
    * (MagDigit(x.mag, 1) + 256 * MagDigit(x.mag, 2) + 65536 * MagDigit(x.mag, 3)
       + 16777216 * MagDigit(x.mag, 4))

\* the bits of a non-zero digit
TopBits(top) == CHOOSE b \in 1..8 : 2 ^ (b - 1) <= top /\ top < 2 ^ b

\* int.bit_length()
bit_length(x) ==
    IF x.mag = <<>> THEN 0 ELSE 8 * (Len(x.mag) - 1) + TopBits(x.mag[Len(x.mag)])

\* the nbytes low digits of m
Pad(m, nbytes) == SubSeq([i \in 1..nbytes |-> MagDigit(m, i)], 1, nbytes)

\* int.to_bytes(nbytes, byteorder='little', signed=signed): [exc, bytes].
\* A negative x is written as 2 ** (8 * nbytes) + x.
to_bytes(x, nbytes, signed) ==
    IF ~(IF signed
         THEN x.mag = <<>>
              \/ (nbytes > 0 /\ x.neg /\ ZLe(ZNeg(Pow2(8 * nbytes - 1)), x))
              \/ (nbytes > 0 /\ ~x.neg /\ ZLt(x, Pow2(8 * nbytes - 1)))
         ELSE ~x.neg /\ Len(x.mag) <= nbytes)
    THEN [exc |-> "OverflowError", bytes |-> <<>>]
    ELSE [exc |-> "",
          bytes |-> Pad(IF x.neg THEN MagSub(Pow2(8 * nbytes).mag, x.mag) ELSE x.mag, nbytes)]

\* the six decimal digits (ASCII) of r < 10^6
Digits6(r) ==
    << 48 + ((r \div 100000) % 10), 48 + ((r \div 10000) % 10), 48 + ((r \div 1000) % 10),
       48 + ((r \div 100) % 10), 48 + ((r \div 10) % 10), 48 + (r % 10) >>

\* s without its leading "0" characters
StripZeros(s) ==
    IF \A i \in 1..Len(s) : s[i] = 48 THEN <<>>
    ELSE SubSeq(s, CHOOSE i \in 1..Len(s) : s[i] # 48 /\ \A j \in 1..(i - 1) : s[j] = 48, Len(s))

\* six more decimal digits: d is the quotient and remainder of st.m by 10^6
DecStep(st, d) == [m |-> d.q, s |-> Digits6(d.r) \o st.s]

RECURSIVE DecLoop(_, _)
DecLoop(st, n) ==
    IF n <= 0 THEN st
    ELSE IF n = 1 THEN (IF st.m = <<>> THEN st ELSE DecStep(st, MagDivRem(st.m, 1000000)))
    ELSE The({DecLoop(h, n - (n \div 2)) : h \in {DecLoop(st, n \div 2)}})

\* the decimal digits (ASCII) of a magnitude, "0" for zero
MagToDecimal(m) ==
    IF m = <<>> THEN <<48>> ELSE StripZeros(DecLoop([m |-> m, s |-> <<>>], (Len(m) \div 2) + 1).s)

\* str(x).encode('ascii') for an int x
int_str(x) == (IF x.neg THEN <<45>> ELSE <<>>) \o MagToDecimal(x.mag)

(***************************************************************************)
(* Integer packing utilities.                                              *)
(***************************************************************************)
\* word_size=None is written 0
NoneSize == 0

_endian_dict == [e \in {"<", ">", "little", "big"} |->
                    IF e \in {"<", "little"} THEN "little" ELSE "big"]

_word_size_dict == [w \in {NoneSize, 8, 16, 32, 64} |->
                       CASE w = NoneSize -> "None" [] w = 8 -> "b" [] w = 16 -> "h"
                         [] w = 32 -> "i" [] w = 64 -> "q"]

\* result if endian == 'little' else result[::-1]
ByteOrder(result, endian) == IF endian = "little" THEN result ELSE Reverse(result)

\* struct.calcsize of a one-letter format
struct_size(code) ==
    CASE code \in {"b", "B"} -> 1 [] code \in {"h", "H"} -> 2
      [] code \in {"i", "I"} -> 4 [] code \in {"q", "Q"} -> 8

\* the bytes of r = x.to_bytes(...), or struct.error when x is out of range
struct_result(endian, r) ==
    IF r.exc # "" THEN [exc |-> "struct.error", bytes |-> <<>>]
    ELSE [exc |-> "", bytes |-> IF endian = "<" THEN r.bytes ELSE Reverse(r.bytes)]

\* struct.pack(endian + code, x): code b/h/i/q signed, B/H/I/Q unsigned
struct_pack(endian, code, x) ==
    struct_result(endian, to_bytes(x, struct_size(code), code \in {"b", "h", "i", "q"}))

\* the word size code left in lower case
code_upper_omitted(word_size_code) == word_size_code

\* word_size_code.upper()
code_upper(word_size_code) ==
    CASE word_size_code = "b" -> "B" [] word_size_code = "h" -> "H"
      [] word_size_code = "i" -> "I" [] word_size_code = "q" -> "Q"

\* the result kept whole
trim_sign_omitted(x, nbytes, result) == result

\* if x < 0 and nbytes > 1: drop a redundant 0xff sign byte
trim_sign(x, nbytes, result) ==
    IF x.neg /\ nbytes > 1 /\ result[Len(result)] = 255 /\ result[Len(result) - 1] >= 128
    THEN SubSeq(result, 1, Len(result) - 1)
    ELSE result

\* the signed branch of pack for x # 0, adapted from pickle.encode_long()
encode_long(x, nbytes, endian) ==
    [exc |-> "", bytes |-> ByteOrder(trim_sign(x, nbytes, to_bytes(x, nbytes, TRUE).bytes), endian)]

\* x.to_bytes(nbytes, byteorder=endian, signed=False), r being its little-endian result
to_bytes_order(r, endian) ==
    IF r.exc # "" THEN r ELSE [exc |-> "", bytes |-> ByteOrder(r.bytes, endian)]

\* pack with the unsigned byte count (bit_length + 7) >> 3 in the signed branch
pack_unsigned_count(x, endian, word_size, signed) ==
    IF endian \notin DOMAIN _endian_dict THEN [exc |-> "ValueError", bytes |-> <<>>]
    ELSE IF word_size \notin DOMAIN _word_size_dict THEN [exc |-> "ValueError", bytes |-> <<>>]
    ELSE IF _word_size_dict[word_size] = "None"
    THEN IF signed
         THEN IF x = Z(0) THEN [exc |-> "", bytes |-> <<>>]
              ELSE to_bytes_order(to_bytes(x, (bit_length(x) + 7) \div 8, TRUE),
                                  _endian_dict[endian])
         ELSE to_bytes_order(to_bytes(x, (bit_length(x) + 7) \div 8, FALSE), _endian_dict[endian])
    ELSE struct_pack(IF _endian_dict[endian] = "little" THEN "<" ELSE ">",
                     IF signed THEN _word_size_dict[word_size]
                     ELSE code_upper(_word_size_dict[word_size]),
                     x)

pack(x, endian, word_size, signed) ==
    IF endian \notin DOMAIN _endian_dict THEN [exc |-> "ValueError", bytes |-> <<>>]
    ELSE IF word_size \notin DOMAIN _word_size_dict THEN [exc |-> "ValueError", bytes |-> <<>>]
    ELSE IF _word_size_dict[word_size] = "None"
    THEN IF signed
         THEN IF x = Z(0) THEN [exc |-> "", bytes |-> <<>>]
              ELSE encode_long(x, (bit_length(x) \div 8) + 1, _endian_dict[endian])
         ELSE to_bytes_order(to_bytes(x, (bit_length(x) + 7) \div 8, FALSE), _endian_dict[endian])
    ELSE struct_pack(IF _endian_dict[endian] = "little" THEN "<" ELSE ">",
                     IF signed THEN _word_size_dict[word_size]
                     ELSE code_upper(_word_size_dict[word_size]),
                     x)

p8(x, signed)  == pack(x, "<", 8, signed)
p16(x, signed) == pack(x, "<", 16, signed)
p32(x, signed) == pack(x, "<", 32, signed)
p64(x, signed) == pack(x, "<", 64, signed)

HIGHEST_PROTOCOL == 5

(***************************************************************************)
(* The opcode table: name, code, proto.  OpcodeTable lists the module's    *)
(* Opcode globals in source order; Op(name) is globals()[name].            *)
(***************************************************************************)
Opcode(name, code, proto_) == [name |-> name, code |-> code, proto |-> proto_]

OpcodeTable ==
    <<
       Opcode("MARK", <<40>>, 0),
       Opcode("STOP", <<46>>, 0),
       Opcode("POP", <<48>>, 0),
       Opcode("DUP", <<50>>, 0),
       Opcode("FLOAT", <<70>>, 0),
       Opcode("INT", <<73>>, 0),
       Opcode("LONG", <<76>>, 0),
       Opcode("NONE", <<78>>, 0),
       Opcode("PERSID", <<80>>, 0),
       Opcode("REDUCE", <<82>>, 0),
       Opcode("STRING", <<83>>, 0),
       Opcode("UNICODE", <<86>>, 0),
       Opcode("APPEND", <<97>>, 0),
       Opcode("BUILD", <<98>>, 0),
       Opcode("GLOBAL", <<99>>, 0),
       Opcode("DICT", <<100>>, 0),
       Opcode("GET", <<103>>, 0),
       Opcode("INST", <<105>>, 0),
       Opcode("LIST", <<108>>, 0),
       Opcode("PUT", <<112>>, 0),
       Opcode("SETITEM", <<115>>, 0),
       Opcode("TUPLE", <<116>>, 0),
       Opcode("POP_MARK", <<49>>, 1),
       Opcode("BININT", <<74>>, 1),
       Opcode("BININT1", <<75>>, 1),
       Opcode("BININT2", <<77>>, 1),
       Opcode("BINPERSID", <<81>>, 1),
       Opcode("BINSTRING", <<84>>, 1),
       Opcode("SHORT_BINSTRING", <<85>>, 1),
       Opcode("BINUNICODE", <<88>>, 1),
       Opcode("EMPTY_DICT", <<125>>, 1),
       Opcode("APPENDS", <<101>>, 1),
       Opcode("BINGET", <<104>>, 1),
       Opcode("LONG_BINGET", <<106>>, 1),
       Opcode("EMPTY_LIST", <<93>>, 1),
       Opcode("OBJ", <<111>>, 1),
       Opcode("BINPUT", <<113>>, 1),
       Opcode("LONG_BINPUT", <<114>>, 1),
       Opcode("EMPTY_TUPLE", <<41>>, 1),
       Opcode("SETITEMS", <<117>>, 1),
       Opcode("BINFLOAT", <<71>>, 1),
       Opcode("PROTO", <<128>>, 2),
       Opcode("NEWOBJ", <<129>>, 2),
       Opcode("EXT1", <<130>>, 2),
       Opcode("EXT2", <<131>>, 2),
       Opcode("EXT4", <<132>>, 2),
       Opcode("TUPLE1", <<133>>, 2),
       Opcode("TUPLE2", <<134>>, 2),
       Opcode("TUPLE3", <<135>>, 2),
       Opcode("NEWTRUE", <<136>>, 2),
       Opcode("NEWFALSE", <<137>>, 2),
       Opcode("LONG1", <<138>>, 2),
       Opcode("LONG4", <<139>>, 2),
       Opcode("BINBYTES", <<66>>, 3),
       Opcode("SHORT_BINBYTES", <<67>>, 3),
       Opcode("SHORT_BINUNICODE", <<140>>, 4),
       Opcode("BINUNICODE8", <<141>>, 4),
       Opcode("BINBYTES8", <<142>>, 4),
       Opcode("EMPTY_SET", <<143>>, 4),
       Opcode("ADDITEMS", <<144>>, 4),
       Opcode("FROZENSET", <<145>>, 4),
       Opcode("NEWOBJ_EX", <<146>>, 4),
       Opcode("STACK_GLOBAL", <<147>>, 4),
       Opcode("MEMOIZE", <<148>>, 4),
       Opcode("FRAME", <<149>>, 4),
       Opcode("BYTEARRAY8", <<150>>, 5),
       Opcode("NEXT_BUFFER", <<151>>, 5),
       Opcode("READONLY_BUFFER", <<152>>, 5)
    >>

OpcodeNames == {o.name : o \in Range(OpcodeTable)}

Op(name) == The({o \in Range(OpcodeTable) : o.name = name})

\* b'I01\n', b'I00\n': not opcodes
TRUE_  == <<73, 48, 49, 10>>
FALSE_ == <<73, 48, 48, 10>>

(***************************************************************************)
(* Text codecs.  A str is a sequence of code points 0..1114111.            *)
(***************************************************************************)
HexDigit(d) == IF d < 10 THEN 48 + d ELSE 87 + d

\* the n lowercase hexadecimal digits of c
Hex(c, n) == SubSeq([i \in 1..n |-> HexDigit((c \div (16 ^ (n - i))) % 16)], 1, n)

IsSurrogate(c) == c >= 55296 /\ c <= 57343

utf8_char(c) ==
    IF c < 128 THEN <<c>>
    ELSE IF c < 2048 THEN <<192 + (c \div 64), 128 + (c % 64)>>
    ELSE IF c < 65536 THEN <<224 + (c \div 4096), 128 + ((c \div 64) % 64), 128 + (c % 64)>>
    ELSE <<240 + (c \div 262144), 128 + ((c \div 4096) % 64), 128 + ((c \div 64) % 64),
           128 + (c % 64)>>

\* one character in raw-unicode-escape
raw_unicode_escape_char(c) ==
    IF c < 256 THEN <<c>>
    ELSE IF c < 65536 THEN <<92, 117>> \o Hex(c, 4)
    ELSE <<92, 85>> \o Hex(c, 8)

\* str.encode(encoding, errors): [exc, bytes]
str_encode(s, encoding, errors) ==
    CASE encoding = "utf-8" ->
           IF errors # "surrogatepass" /\ \E i \in 1..Len(s) : IsSurrogate(s[i])
           THEN [exc |-> "UnicodeEncodeError", bytes |-> <<>>]
           ELSE [exc |-> "", bytes |-> Flatten([i \in 1..Len(s) |-> utf8_char(s[i])])]
      [] encoding = "ascii" ->
           IF \E i \in 1..Len(s) : s[i] >= 128
           THEN [exc |-> "UnicodeEncodeError", bytes |-> <<>>]
           ELSE [exc |-> "", bytes |-> s]
      [] encoding = "latin-1" ->
           IF \E i \in 1..Len(s) : s[i] >= 256
           THEN [exc |-> "UnicodeEncodeError", bytes |-> <<>>]
           ELSE [exc |-> "", bytes |-> s]
      [] encoding = "raw-unicode-escape" ->
           [exc |-> "", bytes |-> Flatten([i \in 1..Len(s) |-> raw_unicode_escape_char(s[i])])]
      [] OTHER -> [exc |-> "LookupError", bytes |-> <<>>]

\* str.replace(old, new) for a one-character old
str_replace(s, old, new) ==
    Flatten([i \in 1..Len(s) |-> IF s[i] = old THEN new ELSE <<s[i]>>])

\* the quote repr() puts around s: " if s has a ' and no ", else '
ascii_quote(s) ==
    IF (\E i \in 1..Len(s) : s[i] = 39) /\ ~(\E i \in 1..Len(s) : s[i] = 34) THEN 34 ELSE 39

\* one character of ascii(s) inside the quotes q
ascii_char(c, q) ==
    IF c = q \/ c = 92 THEN <<92, c>>
    ELSE IF c = 9 THEN <<92, 116>>
    ELSE IF c = 10 THEN <<92, 110>>
    ELSE IF c = 13 THEN <<92, 114>>
    ELSE IF c < 32 \/ c = 127 THEN <<92, 120>> \o Hex(c, 2)
    ELSE IF c < 127 THEN <<c>>
    ELSE IF c < 256 THEN <<92, 120>> \o Hex(c, 2)
    ELSE IF c < 65536 THEN <<92, 117>> \o Hex(c, 4)
    ELSE <<92, 85>> \o Hex(c, 8)

\* ascii(s): the repr of a str with every non-ASCII character escaped
ascii(s) ==
    The({<<q>> \o Flatten([i \in 1..Len(s) |-> ascii_char(s[i], q)]) \o <<q>>
         : q \in {ascii_quote(s)}})

(***************************************************************************)
(* Python values.  t is the type's name; z the number of an int or bool    *)
(* (True is 1, False is 0); data the bytes of a bytes or bytearray, the    *)
(* code points of a str, the big-endian IEEE 754 bytes of a float; items   *)
(* the elements of a tuple, list or frozenset, and key, value, key, value, *)
(* ... in iteration order for a dict.                                      *)
(***************************************************************************)
Val(t, z, data, items) == [t |-> t, z |-> z, data |-> data, items |-> items]

NoneV        == Val("NoneType", Z(0), <<>>, <<>>)
BoolV(b)     == Val("bool", IF b THEN Z(1) ELSE Z(0), <<>>, <<>>)
IntV(z)      == Val("int", z, <<>>, <<>>)
FloatV(d)    == Val("float", Z(0), d, <<>>)
BytesV(d)    == Val("bytes", Z(0), d, <<>>)
ByteArrayV(d) == Val("bytearray", Z(0), d, <<>>)
StrV(d)      == Val("str", Z(0), d, <<>>)
TupleV(xs)   == Val("tuple", Z(0), <<>>, xs)
ListV(xs)    == Val("list", Z(0), <<>>, xs)
DictV(kvs)   == Val("dict", Z(0), <<>>, kvs)
FrozenSetV(xs) == Val("frozenset", Z(0), <<>>, xs)

\* isinstance(value, cls); bool is a subclass of int
isinstance(value, cls) == value.t = cls \/ (cls = "int" /\ value.t = "bool")

\* the floats of the model: 2.1, 1.5 and -0.0 with str(value)
Float21  == <<64, 0, 204, 204, 204, 204, 204, 205>>
Float15  == <<63, 248, 0, 0, 0, 0, 0, 0>>
float_str(d) == IF d = Float21 THEN <<50, 46, 49>>
                ELSE IF d = Float15 THEN <<49, 46, 53>>
                ELSE <<45, 48, 46, 48>>

\* str(value).encode('ascii') for an int, a bool or a float
str_ascii(value) ==
    IF value.t = "bool" THEN (IF value.z = Z(1) THEN <<84, 114, 117, 101>>
                              ELSE <<70, 97, 108, 115, 101>>)
    ELSE IF value.t = "float" THEN float_str(value.data)
    ELSE int_str(value.z)

(***************************************************************************)
(* Names as text.  NameTable gives the characters of every opcode global   *)
(* and of every opcode method, for the string operations of                *)
(* _is_opcode_method and _method_name_to_opcode.                           *)
(***************************************************************************)
NameTable ==
    <<
       <<"MARK", <<77, 65, 82, 75>>>>,
       <<"STOP", <<83, 84, 79, 80>>>>,
       <<"POP", <<80, 79, 80>>>>,
       <<"DUP", <<68, 85, 80>>>>,
       <<"FLOAT", <<70, 76, 79, 65, 84>>>>,
       <<"INT", <<73, 78, 84>>>>,
       <<"LONG", <<76, 79, 78, 71>>>>,
       <<"NONE", <<78, 79, 78, 69>>>>,
       <<"PERSID", <<80, 69, 82, 83, 73, 68>>>>,
       <<"REDUCE", <<82, 69, 68, 85, 67, 69>>>>,
       <<"STRING", <<83, 84, 82, 73, 78, 71>>>>,
       <<"UNICODE", <<85, 78, 73, 67, 79, 68, 69>>>>,
       <<"APPEND", <<65, 80, 80, 69, 78, 68>>>>,
       <<"BUILD", <<66, 85, 73, 76, 68>>>>,
       <<"GLOBAL", <<71, 76, 79, 66, 65, 76>>>>,
       <<"DICT", <<68, 73, 67, 84>>>>,
       <<"GET", <<71, 69, 84>>>>,
       <<"INST", <<73, 78, 83, 84>>>>,
       <<"LIST", <<76, 73, 83, 84>>>>,
       <<"PUT", <<80, 85, 84>>>>,
       <<"SETITEM", <<83, 69, 84, 73, 84, 69, 77>>>>,
       <<"TUPLE", <<84, 85, 80, 76, 69>>>>,
       <<"POP_MARK", <<80, 79, 80, 95, 77, 65, 82, 75>>>>,
       <<"BININT", <<66, 73, 78, 73, 78, 84>>>>,
       <<"BININT1", <<66, 73, 78, 73, 78, 84, 49>>>>,
       <<"BININT2", <<66, 73, 78, 73, 78, 84, 50>>>>,
       <<"BINPERSID", <<66, 73, 78, 80, 69, 82, 83, 73, 68>>>>,
       <<"BINSTRING", <<66, 73, 78, 83, 84, 82, 73, 78, 71>>>>,
       <<"SHORT_BINSTRING", <<83, 72, 79, 82, 84, 95, 66, 73, 78, 83, 84, 82, 73, 78, 71>>>>,
       <<"BINUNICODE", <<66, 73, 78, 85, 78, 73, 67, 79, 68, 69>>>>,
       <<"EMPTY_DICT", <<69, 77, 80, 84, 89, 95, 68, 73, 67, 84>>>>,
       <<"APPENDS", <<65, 80, 80, 69, 78, 68, 83>>>>,
       <<"BINGET", <<66, 73, 78, 71, 69, 84>>>>,
       <<"LONG_BINGET", <<76, 79, 78, 71, 95, 66, 73, 78, 71, 69, 84>>>>,
       <<"EMPTY_LIST", <<69, 77, 80, 84, 89, 95, 76, 73, 83, 84>>>>,
       <<"OBJ", <<79, 66, 74>>>>,
       <<"BINPUT", <<66, 73, 78, 80, 85, 84>>>>,
       <<"LONG_BINPUT", <<76, 79, 78, 71, 95, 66, 73, 78, 80, 85, 84>>>>,
       <<"EMPTY_TUPLE", <<69, 77, 80, 84, 89, 95, 84, 85, 80, 76, 69>>>>,
       <<"SETITEMS", <<83, 69, 84, 73, 84, 69, 77, 83>>>>,
       <<"BINFLOAT", <<66, 73, 78, 70, 76, 79, 65, 84>>>>,
       <<"PROTO", <<80, 82, 79, 84, 79>>>>,
       <<"NEWOBJ", <<78, 69, 87, 79, 66, 74>>>>,
       <<"EXT1", <<69, 88, 84, 49>>>>,
       <<"EXT2", <<69, 88, 84, 50>>>>,
       <<"EXT4", <<69, 88, 84, 52>>>>,
       <<"TUPLE1", <<84, 85, 80, 76, 69, 49>>>>,
       <<"TUPLE2", <<84, 85, 80, 76, 69, 50>>>>,
       <<"TUPLE3", <<84, 85, 80, 76, 69, 51>>>>,
       <<"NEWTRUE", <<78, 69, 87, 84, 82, 85, 69>>>>,
       <<"NEWFALSE", <<78, 69, 87, 70, 65, 76, 83, 69>>>>,
       <<"LONG1", <<76, 79, 78, 71, 49>>>>,
       <<"LONG4", <<76, 79, 78, 71, 52>>>>,
       <<"BINBYTES", <<66, 73, 78, 66, 89, 84, 69, 83>>>>,
       <<"SHORT_BINBYTES", <<83, 72, 79, 82, 84, 95, 66, 73, 78, 66, 89, 84, 69, 83>>>>,
       <<"SHORT_BINUNICODE", <<83, 72, 79, 82, 84, 95, 66, 73, 78, 85, 78, 73, 67, 79, 68, 69>>>>,
       <<"BINUNICODE8", <<66, 73, 78, 85, 78, 73, 67, 79, 68, 69, 56>>>>,
       <<"BINBYTES8", <<66, 73, 78, 66, 89, 84, 69, 83, 56>>>>,
       <<"EMPTY_SET", <<69, 77, 80, 84, 89, 95, 83, 69, 84>>>>,
       <<"ADDITEMS", <<65, 68, 68, 73, 84, 69, 77, 83>>>>,
       <<"FROZENSET", <<70, 82, 79, 90, 69, 78, 83, 69, 84>>>>,
       <<"NEWOBJ_EX", <<78, 69, 87, 79, 66, 74, 95, 69, 88>>>>,
       <<"STACK_GLOBAL", <<83, 84, 65, 67, 75, 95, 71, 76, 79, 66, 65, 76>>>>,
       <<"MEMOIZE", <<77, 69, 77, 79, 73, 90, 69>>>>,
       <<"FRAME", <<70, 82, 65, 77, 69>>>>,
       <<"BYTEARRAY8", <<66, 89, 84, 69, 65, 82, 82, 65, 89, 56>>>>,
       <<"NEXT_BUFFER", <<78, 69, 88, 84, 95, 66, 85, 70, 70, 69, 82>>>>,
       <<"READONLY_BUFFER", <<82, 69, 65, 68, 79, 78, 76, 89, 95, 66, 85, 70, 70, 69, 82>>>>,
       <<"push_none", <<112, 117, 115, 104, 95, 110, 111, 110, 101>>>>,
       <<"push_false", <<112, 117, 115, 104, 95, 102, 97, 108, 115, 101>>>>,
       <<"push_true", <<112, 117, 115, 104, 95, 116, 114, 117, 101>>>>,
       <<"push_int", <<112, 117, 115, 104, 95, 105, 110, 116>>>>,
       <<"push_binint", <<112, 117, 115, 104, 95, 98, 105, 110, 105, 110, 116>>>>,
       <<"push_binint1", <<112, 117, 115, 104, 95, 98, 105, 110, 105, 110, 116, 49>>>>,
       <<"push_binint2", <<112, 117, 115, 104, 95, 98, 105, 110, 105, 110, 116, 50>>>>,
       <<"push_long", <<112, 117, 115, 104, 95, 108, 111, 110, 103>>>>,
       <<"push_long1", <<112, 117, 115, 104, 95, 108, 111, 110, 103, 49>>>>,
       <<"push_long4", <<112, 117, 115, 104, 95, 108, 111, 110, 103, 52>>>>,
       <<"push_float", <<112, 117, 115, 104, 95, 102, 108, 111, 97, 116>>>>,
       <<"push_binfloat", <<112, 117, 115, 104, 95, 98, 105, 110, 102, 108, 111, 97, 116>>>>,
       <<"push_string", <<112, 117, 115, 104, 95, 115, 116, 114, 105, 110, 103>>>>,
       <<"push_binstring", <<112, 117, 115, 104, 95, 98, 105, 110, 115, 116, 114, 105, 110, 103>>>>,
       <<"push_short_binstring", <<112, 117, 115, 104, 95, 115, 104, 111, 114, 116, 95, 98, 105, 110, 115, 116, 114, 105, 110, 103>>>>,
       <<"push_binbytes", <<112, 117, 115, 104, 95, 98, 105, 110, 98, 121, 116, 101, 115>>>>,
       <<"push_binbytes8", <<112, 117, 115, 104, 95, 98, 105, 110, 98, 121, 116, 101, 115, 56>>>>,
       <<"push_short_binbytes", <<112, 117, 115, 104, 95, 115, 104, 111, 114, 116, 95, 98, 105, 110, 98, 121, 116, 101, 115>>>>,
       <<"push_bytearray8", <<112, 117, 115, 104, 95, 98, 121, 116, 101, 97, 114, 114, 97, 121, 56>>>>,
       <<"push_unicode", <<112, 117, 115, 104, 95, 117, 110, 105, 99, 111, 100, 101>>>>,
       <<"push_binunicode", <<112, 117, 115, 104, 95, 98, 105, 110, 117, 110, 105, 99, 111, 100, 101>>>>,
       <<"push_binunicode8", <<112, 117, 115, 104, 95, 98, 105, 110, 117, 110, 105, 99, 111, 100, 101, 56>>>>,
       <<"push_short_binunicode", <<112, 117, 115, 104, 95, 115, 104, 111, 114, 116, 95, 98, 105, 110, 117, 110, 105, 99, 111, 100, 101>>>>,
       <<"push_empty_tuple", <<112, 117, 115, 104, 95, 101, 109, 112, 116, 121, 95, 116, 117, 112, 108, 101>>>>,
       <<"push_empty_list", <<112, 117, 115, 104, 95, 101, 109, 112, 116, 121, 95, 108, 105, 115, 116>>>>,
       <<"push_empty_dict", <<112, 117, 115, 104, 95, 101, 109, 112, 116, 121, 95, 100, 105, 99, 116>>>>,
       <<"push_empty_set", <<112, 117, 115, 104, 95, 101, 109, 112, 116, 121, 95, 115, 101, 116>>>>,
       <<"push_global", <<112, 117, 115, 104, 95, 103, 108, 111, 98, 97, 108>>>>,
       <<"push_mark", <<112, 117, 115, 104, 95, 109, 97, 114, 107>>>>,
       <<"build_tuple", <<98, 117, 105, 108, 100, 95, 116, 117, 112, 108, 101>>>>,
       <<"build_tuple1", <<98, 117, 105, 108, 100, 95, 116, 117, 112, 108, 101, 49>>>>,
       <<"build_tuple2", <<98, 117, 105, 108, 100, 95, 116, 117, 112, 108, 101, 50>>>>,
       <<"build_tuple3", <<98, 117, 105, 108, 100, 95, 116, 117, 112, 108, 101, 51>>>>,
       <<"build_list", <<98, 117, 105, 108, 100, 95, 108, 105, 115, 116>>>>,
       <<"build_dict", <<98, 117, 105, 108, 100, 95, 100, 105, 99, 116>>>>,
       <<"build_frozenset", <<98, 117, 105, 108, 100, 95, 102, 114, 111, 122, 101, 110, 115, 101, 116>>>>,
       <<"build_append", <<98, 117, 105, 108, 100, 95, 97, 112, 112, 101, 110, 100>>>>,
       <<"build_appends", <<98, 117, 105, 108, 100, 95, 97, 112, 112, 101, 110, 100, 115>>>>,
       <<"build_setitem", <<98, 117, 105, 108, 100, 95, 115, 101, 116, 105, 116, 101, 109>>>>,
       <<"build_setitems", <<98, 117, 105, 108, 100, 95, 115, 101, 116, 105, 116, 101, 109, 115>>>>,
       <<"build_additems", <<98, 117, 105, 108, 100, 95, 97, 100, 100, 105, 116, 101, 109, 115>>>>,
       <<"build_inst", <<98, 117, 105, 108, 100, 95, 105, 110, 115, 116>>>>,
       <<"build_obj", <<98, 117, 105, 108, 100, 95, 111, 98, 106>>>>,
       <<"build_newobj", <<98, 117, 105, 108, 100, 95, 110, 101, 119, 111, 98, 106>>>>,
       <<"build_newobj_ex", <<98, 117, 105, 108, 100, 95, 110, 101, 119, 111, 98, 106, 95, 101, 120>>>>,
       <<"build_stack_global", <<98, 117, 105, 108, 100, 95, 115, 116, 97, 99, 107, 95, 103, 108, 111, 98, 97, 108>>>>,
       <<"build_reduce", <<98, 117, 105, 108, 100, 95, 114, 101, 100, 117, 99, 101>>>>,
       <<"build_build", <<98, 117, 105, 108, 100, 95, 98, 117, 105, 108, 100>>>>,
       <<"build_dup", <<98, 117, 105, 108, 100, 95, 100, 117, 112>>>>,
       <<"pop", <<112, 111, 112>>>>,
       <<"pop_mark", <<112, 111, 112, 95, 109, 97, 114, 107>>>>,
       <<"memo_get", <<109, 101, 109, 111, 95, 103, 101, 116>>>>,
       <<"memo_binget", <<109, 101, 109, 111, 95, 98, 105, 110, 103, 101, 116>>>>,
       <<"memo_long_binget", <<109, 101, 109, 111, 95, 108, 111, 110, 103, 95, 98, 105, 110, 103, 101, 116>>>>,
       <<"memo_put", <<109, 101, 109, 111, 95, 112, 117, 116>>>>,
       <<"memo_binput", <<109, 101, 109, 111, 95, 98, 105, 110, 112, 117, 116>>>>,
       <<"memo_long_binput", <<109, 101, 109, 111, 95, 108, 111, 110, 103, 95, 98, 105, 110, 112, 117, 116>>>>,
       <<"memo_memoize", <<109, 101, 109, 111, 95, 109, 101, 109, 111, 105, 122, 101>>>>,
       <<"append_raw", <<97, 112, 112, 101, 110, 100, 95, 114, 97, 119>>>>,
       <<"_util_push_bool", <<95, 117, 116, 105, 108, 95, 112, 117, 115, 104, 95, 98, 111, 111, 108>>>>,
       <<"_util_push_int", <<95, 117, 116, 105, 108, 95, 112, 117, 115, 104, 95, 105, 110, 116>>>>,
       <<"_util_push_float", <<95, 117, 116, 105, 108, 95, 112, 117, 115, 104, 95, 102, 108, 111, 97, 116>>>>,
       <<"_util_push_bytes", <<95, 117, 116, 105, 108, 95, 112, 117, 115, 104, 95, 98, 121, 116, 101, 115>>>>,
       <<"_util_push_unicode", <<95, 117, 116, 105, 108, 95, 112, 117, 115, 104, 95, 117, 110, 105, 99, 111, 100, 101>>>>,
       <<"_util_push_tuple", <<95, 117, 116, 105, 108, 95, 112, 117, 115, 104, 95, 116, 117, 112, 108, 101>>>>,
       <<"_util_push_list", <<95, 117, 116, 105, 108, 95, 112, 117, 115, 104, 95, 108, 105, 115, 116>>>>,
       <<"_util_push_dict", <<95, 117, 116, 105, 108, 95, 112, 117, 115, 104, 95, 100, 105, 99, 116>>>>,
       <<"util_push", <<117, 116, 105, 108, 95, 112, 117, 115, 104>>>>,
       <<"util_memo_get", <<117, 116, 105, 108, 95, 109, 101, 109, 111, 95, 103, 101, 116>>>>,
       <<"util_memo_put", <<117, 116, 105, 108, 95, 109, 101, 109, 111, 95, 112, 117, 116>>>>,
       <<"__init__", <<95, 95, 105, 110, 105, 116, 95, 95>>>>,
       <<"assemble", <<97, 115, 115, 101, 109, 98, 108, 101>>>>
    >>

NameChars(name) == The({e \in Range(NameTable) : e[1] = name})[2]

\* str.upper() and str.startswith() on ASCII text
upper(s) == SubSeq([i \in 1..Len(s) |-> IF s[i] \in 97..122 THEN s[i] - 32 ELSE s[i]], 1, Len(s))

startswith(s, prefix) == IsPrefix(prefix, s)

\* globals()[text] for the text of an opcode's name
globals(text) == Op(The({e \in Range(NameTable) : e[2] = text})[1])

(***************************************************************************)
(* class PickleAssembler.  self is [proto, verify, payload]; a method      *)
(* returns [payload, exc]: the buffer it leaves and the exception it       *)
(* raised ("" when it returned).                                           *)
(***************************************************************************)
Self(p, v, pl) == [proto |-> p, verify |-> v, payload |-> pl]

Raise(self, e) == [payload |-> self.payload, exc |-> e]

\* self._payload += data
Emit(self, data) == [payload |-> self.payload \o data, exc |-> ""]

\* self._payload += prefix + packed + suffix, packed being a pack() result
EmitPacked(self, prefix, packed, suffix) ==
    IF packed.exc # "" THEN Raise(self, packed.exc)
    ELSE Emit(self, prefix \o packed.bytes \o suffix)

\* __init__ writing the header from protocol 3 on only
init_late_header(p, v) ==
    IF ~(0 <= p /\ p <= HIGHEST_PROTOCOL) THEN [self |-> Self(p, v, <<>>), exc |-> "ValueError"]
    ELSE [self |-> Self(p, v, IF p > 2 THEN Op("PROTO").code \o p8(Z(p), FALSE).bytes ELSE <<>>),
          exc |-> ""]

\* PickleAssembler.__init__(proto, verify) for an int proto and a bool verify
init(p, v) ==
    IF ~(0 <= p /\ p <= HIGHEST_PROTOCOL) THEN [self |-> Self(p, v, <<>>), exc |-> "ValueError"]
    ELSE [self |-> Self(p, v, IF p >= 2 THEN Op("PROTO").code \o p8(Z(p), FALSE).bytes ELSE <<>>),
          exc |-> ""]

\* assemble() returning the buffer without STOP
assemble_no_stop(self) == self.payload

\* assemble(): the bytes returned
assemble(self) == self.payload \o Op("STOP").code

\* append_raw with self._payload = data in place of +=
append_raw_assign(self, data) ==
    IF ~isinstance(data, "bytes") THEN Raise(self, "TypeError")
    ELSE [payload |-> data.data, exc |-> ""]

append_raw(self, data) ==
    IF ~isinstance(data, "bytes") THEN Raise(self, "TypeError")
    ELSE Emit(self, data.data)

push_none(self) == Emit(self, Op("NONE").code)

push_false(self) == Emit(self, Op("NEWFALSE").code)

push_true(self) == Emit(self, Op("NEWTRUE").code)

\* push_int without the branch for bool: True and False as the ints 1 and 0
push_int_plain(self, value) ==
    IF isinstance(value, "int")
    THEN Emit(self, Op("INT").code \o str_ascii(value) \o <<10>>)
    ELSE Raise(self, "TypeError")

push_int(self, value) ==
    IF isinstance(value, "bool") THEN Emit(self, IF value.z = Z(1) THEN TRUE_ ELSE FALSE_)
    ELSE IF isinstance(value, "int")
    THEN Emit(self, Op("INT").code \o str_ascii(value) \o <<10>>)
    ELSE Raise(self, "TypeError")

\* push_binint taking the four bytes as unsigned
push_binint_unsigned(self, value) ==
    IF ~isinstance(value, "int") THEN Raise(self, "TypeError")
    ELSE IF ~(ZLe(Z(0), value.z) /\ ZLe(value.z, ZSub(Pow2(32), Z(1))))
    THEN Raise(self, "ValueError")
    ELSE EmitPacked(self, Op("BININT").code, p32(value.z, FALSE), <<>>)

push_binint(self, value) ==
    IF ~isinstance(value, "int") THEN Raise(self, "TypeError")
    ELSE IF ~(ZLe(ZNeg(Pow2(31)), value.z) /\ ZLe(value.z, ZSub(Pow2(31), Z(1))))
    THEN Raise(self, "ValueError")
    ELSE EmitPacked(self, Op("BININT").code, p32(value.z, TRUE), <<>>)

push_binint1(self, value) ==
    IF ~isinstance(value, "int") THEN Raise(self, "TypeError")
    ELSE IF ~(ZLe(Z(0), value.z) /\ ZLe(value.z, ZSub(Pow2(8), Z(1))))
    THEN Raise(self, "ValueError")
    ELSE EmitPacked(self, Op("BININT1").code, p8(value.z, FALSE), <<>>)

push_binint2(self, value) ==
    IF ~isinstance(value, "int") THEN Raise(self, "TypeError")
    ELSE IF ~(ZLe(Z(0), value.z) /\ ZLe(value.z, ZSub(Pow2(16), Z(1))))
    THEN Raise(self, "ValueError")
    ELSE EmitPacked(self, Op("BININT2").code, p16(value.z, FALSE), <<>>)

push_long(self, value) ==
    IF ~isinstance(value, "int") THEN Raise(self, "TypeError")
    ELSE Emit(self, Op("LONG").code \o str_ascii(value) \o <<10>>)

\* push_long1 with > in place of >= at the limit of 2 ** 8 bytes
push_long1_le(self, value) ==
    IF ~isinstance(value, "int") THEN Raise(self, "TypeError")
    ELSE The({IF Len(value_bytes) > 2 ^ 8 THEN Raise(self, "ValueError")
              ELSE EmitPacked(self, Op("LONG1").code, p8(Z(Len(value_bytes)), FALSE), value_bytes)
              : value_bytes \in {pack(value.z, "<", NoneSize, TRUE).bytes}})

push_long1(self, value) ==
    IF ~isinstance(value, "int") THEN Raise(self, "TypeError")
    ELSE The({IF Len(value_bytes) >= 2 ^ 8 THEN Raise(self, "ValueError")
              ELSE EmitPacked(self, Op("LONG1").code, p8(Z(Len(value_bytes)), FALSE), value_bytes)
              : value_bytes \in {pack(value.z, "<", NoneSize, TRUE).bytes}})

\* the exception push_long4 raises for an int whose packed form has that
\* many bytes, the number a Python int: "" for none
push_long4_check(length) == IF ZLe(Pow2(31), length) THEN "ValueError" ELSE ""

push_long4(self, value) ==
    IF ~isinstance(value, "int") THEN Raise(self, "TypeError")
    ELSE The({IF push_long4_check(Z(Len(value_bytes))) # ""
              THEN Raise(self, push_long4_check(Z(Len(value_bytes))))
              ELSE EmitPacked(self, Op("LONG4").code, p32(Z(Len(value_bytes)), TRUE), value_bytes)
              : value_bytes \in {pack(value.z, "<", NoneSize, TRUE).bytes}})

push_float(self, value) ==
    IF ~isinstance(value, "float") THEN Raise(self, "TypeError")
    ELSE Emit(self, Op("FLOAT").code \o str_ascii(value) \o <<10>>)

\* struct.pack('>d', value) is the float's big-endian IEEE 754 bytes
push_binfloat(self, value) ==
    IF ~isinstance(value, "float") THEN Raise(self, "TypeError")
    ELSE Emit(self, Op("BINFLOAT").code \o value.data)

push_string(self, value, encoding) ==
    IF ~isinstance(value, "str") THEN Raise(self, "TypeError")
    ELSE EmitPacked(self, Op("STRING").code, str_encode(ascii(value.data), encoding, "strict"), <<10>>)

push_binstring(self, value, encoding) ==
    IF ~isinstance(value, "str") THEN Raise(self, "TypeError")
    ELSE The({IF value_bytes.exc # "" THEN Raise(self, value_bytes.exc)
              ELSE IF ZLe(Pow2(31), Z(Len(value_bytes.bytes))) THEN Raise(self, "ValueError")
              ELSE EmitPacked(self, Op("BINSTRING").code, p32(Z(Len(value_bytes.bytes)), TRUE),
                              value_bytes.bytes)
              : value_bytes \in {str_encode(value.data, encoding, "strict")}})

push_short_binstring(self, value, encoding) ==
    IF ~isinstance(value, "str") THEN Raise(self, "TypeError")
    ELSE The({IF value_bytes.exc # "" THEN Raise(self, value_bytes.exc)
              ELSE IF Len(value_bytes.bytes) >= 2 ^ 8 THEN Raise(self, "ValueError")
              ELSE EmitPacked(self, Op("SHORT_BINSTRING").code,
                              p8(Z(Len(value_bytes.bytes)), FALSE), value_bytes.bytes)
              : value_bytes \in {str_encode(value.data, encoding, "strict")}})

push_binbytes(self, value) ==
    IF ~isinstance(value, "bytes") THEN Raise(self, "TypeError")
    ELSE IF ZLe(Pow2(32), Z(Len(value.data))) THEN Raise(self, "ValueError")
    ELSE EmitPacked(self, Op("BINBYTES").code, p32(Z(Len(value.data)), FALSE), value.data)

push_binbytes8(self, value) ==
    IF ~isinstance(value, "bytes") THEN Raise(self, "TypeError")
    ELSE IF ZLe(Pow2(64), Z(Len(value.data))) THEN Raise(self, "ValueError")
    ELSE EmitPacked(self, Op("BINBYTES8").code, p64(Z(Len(value.data)), FALSE), value.data)

push_short_binbytes(self, value) ==
    IF ~isinstance(value, "bytes") THEN Raise(self, "TypeError")
    ELSE IF Len(value.data) >= 2 ^ 8 THEN Raise(self, "ValueError")
    ELSE EmitPacked(self, Op("SHORT_BINBYTES").code, p8(Z(Len(value.data)), FALSE), value.data)

push_bytearray8(self, value) ==
    IF ~(isinstance(value, "bytes") \/ isinstance(value, "bytearray")) THEN Raise(self, "TypeError")
    ELSE IF ZLe(Pow2(64), Z(Len(value.data))) THEN Raise(self, "ValueError")
    ELSE EmitPacked(self, Op("BYTEARRAY8").code, p64(Z(Len(value.data)), FALSE), value.data)

\* push_unicode without the replacement of the backslash
push_unicode_backslash(self, value) ==
    IF ~isinstance(value, "str") THEN Raise(self, "TypeError")
    ELSE EmitPacked(self, Op("UNICODE").code,
                    str_encode(
                        str_replace(
                            str_replace(
                                str_replace(
                                    str_replace(value.data, 0, <<92, 117, 48, 48, 48, 48>>),
                                    10, <<92, 117, 48, 48, 48, 97>>),
                                13, <<92, 117, 48, 48, 48, 100>>),
                            26, <<92, 117, 48, 48, 49, 97>>),
                        "raw-unicode-escape", "strict"),
                    <<10>>)

\* push_unicode with the backslash substituted last
push_unicode_backslash_last(self, value) ==
    IF ~isinstance(value, "str") THEN Raise(self, "TypeError")
    ELSE EmitPacked(self, Op("UNICODE").code,
                    str_encode(
                        str_replace(
                            str_replace(
                                str_replace(
                                    str_replace(
                                        str_replace(value.data, 0, <<92, 117, 48, 48, 48, 48>>),
                                        10, <<92, 117, 48, 48, 48, 97>>),
                                    13, <<92, 117, 48, 48, 48, 100>>),
                                26, <<92, 117, 48, 48, 49, 97>>),
                            92, <<92, 117, 48, 48, 53, 99>>),
                        "raw-unicode-escape", "strict"),
                    <<10>>)

\* value.replace('\\', '\\u005c') and so on for \0, \n, \r and \x1a, in this order
push_unicode(self, value) ==
    IF ~isinstance(value, "str") THEN Raise(self, "TypeError")
    ELSE EmitPacked(self, Op("UNICODE").code,
                    str_encode(
                        str_replace(
                            str_replace(
                                str_replace(
                                    str_replace(
                                        str_replace(value.data, 92, <<92, 117, 48, 48, 53, 99>>),
                                        0, <<92, 117, 48, 48, 48, 48>>),
                                    10, <<92, 117, 48, 48, 48, 97>>),
                                13, <<92, 117, 48, 48, 48, 100>>),
                            26, <<92, 117, 48, 48, 49, 97>>),
                        "raw-unicode-escape", "strict"),
                    <<10>>)

push_binunicode(self, value) ==
    IF ~isinstance(value, "str") THEN Raise(self, "TypeError")
    ELSE The({IF ZLe(Pow2(32), Z(Len(value_bytes))) THEN Raise(self, "ValueError")
              ELSE EmitPacked(self, Op("BINUNICODE").code, p32(Z(Len(value_bytes)), FALSE),
                              value_bytes)
              : value_bytes \in {str_encode(value.data, "utf-8", "surrogatepass").bytes}})

push_binunicode8(self, value) ==
    IF ~isinstance(value, "str") THEN Raise(self, "TypeError")
    ELSE The({IF ZLe(Pow2(64), Z(Len(value_bytes))) THEN Raise(self, "ValueError")
              ELSE EmitPacked(self, Op("BINUNICODE8").code, p64(Z(Len(value_bytes)), FALSE),
                              value_bytes)
              : value_bytes \in {str_encode(value.data, "utf-8", "surrogatepass").bytes}})

\* push_short_binunicode with len(value) in place of len(value_bytes)
push_short_binunicode_chars(self, value) ==
    IF ~isinstance(value, "str") THEN Raise(self, "TypeError")
    ELSE The({IF Len(value.data) >= 2 ^ 8 THEN Raise(self, "ValueError")
              ELSE EmitPacked(self, Op("SHORT_BINUNICODE").code, p8(Z(Len(value_bytes)), FALSE),
                              value_bytes)
              : value_bytes \in {str_encode(value.data, "utf-8", "surrogatepass").bytes}})

push_short_binunicode(self, value) ==
    IF ~isinstance(value, "str") THEN Raise(self, "TypeError")
    ELSE The({IF Len(value_bytes) >= 2 ^ 8 THEN Raise(self, "ValueError")
              ELSE EmitPacked(self, Op("SHORT_BINUNICODE").code, p8(Z(Len(value_bytes)), FALSE),
                              value_bytes)
              : value_bytes \in {str_encode(value.data, "utf-8", "surrogatepass").bytes}})

push_empty_tuple(self) == Emit(self, Op("EMPTY_TUPLE").code)

push_empty_list(self) == Emit(self, Op("EMPTY_LIST").code)

push_empty_dict(self) == Emit(self, Op("EMPTY_DICT").code)

push_empty_set(self) == Emit(self, Op("EMPTY_SET").code)

\* three += statements: the opcode is in the buffer before module is encoded,
\* and module before name is
push_global(self, module, name) ==
    IF ~isinstance(module, "str") \/ ~isinstance(name, "str") THEN Raise(self, "TypeError")
    ELSE The({IF s2.exc # "" THEN s2
              ELSE EmitPacked(s2, <<>>, str_encode(name.data, "utf-8", "strict"), <<10>>)
              : s2 \in {EmitPacked(Emit(self, Op("GLOBAL").code), <<>>,
                                   str_encode(module.data, "utf-8", "strict"), <<10>>)}})

push_mark(self) == Emit(self, Op("MARK").code)

build_tuple(self) == Emit(self, Op("TUPLE").code)

build_tuple1(self) == Emit(self, Op("TUPLE1").code)

build_tuple2(self) == Emit(self, Op("TUPLE2").code)

build_tuple3(self) == Emit(self, Op("TUPLE3").code)

build_list(self) == Emit(self, Op("LIST").code)

build_dict(self) == Emit(self, Op("DICT").code)

build_frozenset(self) == Emit(self, Op("FROZENSET").code)

build_append(self) == Emit(self, Op("APPEND").code)

build_appends(self) == Emit(self, Op("APPENDS").code)

build_setitem(self) == Emit(self, Op("SETITEM").code)

build_setitems(self) == Emit(self, Op("SETITEMS").code)

build_additems(self) == Emit(self, Op("ADDITEMS").code)

\* three += statements, as in push_global
build_inst(self, module, name) ==
    IF ~isinstance(module, "str") \/ ~isinstance(name, "str") THEN Raise(self, "TypeError")
    ELSE The({IF s2.exc # "" THEN s2
              ELSE EmitPacked(s2, <<>>, str_encode(name.data, "ascii", "strict"), <<10>>)
              : s2 \in {EmitPacked(Emit(self, Op("INST").code), <<>>,
                                   str_encode(module.data, "ascii", "strict"), <<10>>)}})

build_obj(self) == Emit(self, Op("OBJ").code)

build_newobj(self) == Emit(self, Op("NEWOBJ").code)

build_newobj_ex(self) == Emit(self, Op("NEWOBJ_EX").code)

build_stack_global(self) == Emit(self, Op("STACK_GLOBAL").code)

build_reduce(self) == Emit(self, Op("REDUCE").code)

build_build(self) == Emit(self, Op("BUILD").code)

build_dup(self) == Emit(self, Op("DUP").code)

pop(self) == Emit(self, Op("POP").code)

pop_mark(self) == Emit(self, Op("POP_MARK").code)

memo_get(self, index) ==
    IF ~isinstance(index, "int") THEN Raise(self, "TypeError")
    ELSE IF ZLt(index.z, Z(0)) THEN Raise(self, "ValueError")
    ELSE Emit(self, Op("GET").code \o str_ascii(index) \o <<10>>)

memo_binget(self, index) ==
    IF ~isinstance(index, "int") THEN Raise(self, "TypeError")
    ELSE IF ~(ZLe(Z(0), index.z) /\ ZLe(index.z, ZSub(Pow2(8), Z(1))))
    THEN Raise(self, "ValueError")
    ELSE EmitPacked(self, Op("BINGET").code, p8(index.z, FALSE), <<>>)

memo_long_binget(self, index) ==
    IF ~isinstance(index, "int") THEN Raise(self, "TypeError")
    ELSE IF ~(ZLe(Z(0), index.z) /\ ZLe(index.z, ZSub(Pow2(32), Z(1))))
    THEN Raise(self, "ValueError")
    ELSE EmitPacked(self, Op("LONG_BINGET").code, p32(index.z, FALSE), <<>>)

memo_put(self, index) ==
    IF ~isinstance(index, "int") THEN Raise(self, "TypeError")
    ELSE IF ZLt(index.z, Z(0)) THEN Raise(self, "ValueError")
    ELSE Emit(self, Op("PUT").code \o str_ascii(index) \o <<10>>)

memo_binput(self, index) ==
    IF ~isinstance(index, "int") THEN Raise(self, "TypeError")
    ELSE IF ~(ZLe(Z(0), index.z) /\ ZLe(index.z, ZSub(Pow2(8), Z(1))))
    THEN Raise(self, "ValueError")
    ELSE EmitPacked(self, Op("BINPUT").code, p8(index.z, FALSE), <<>>)

memo_long_binput(self, index) ==
    IF ~isinstance(index, "int") THEN Raise(self, "TypeError")
    ELSE IF ~(ZLe(Z(0), index.z) /\ ZLe(index.z, ZSub(Pow2(32), Z(1))))
    THEN Raise(self, "ValueError")
    ELSE EmitPacked(self, Op("LONG_BINPUT").code, p32(index.z, FALSE), <<>>)

memo_memoize(self) == Emit(self, Op("MEMOIZE").code)

(***************************************************************************)
(* Internal operations: the protocol gate put around every opcode method.  *)
(***************************************************************************)
OpcodeMethods == {
    "push_none", "push_false", "push_true", "push_int", "push_binint", "push_binint1",
    "push_binint2", "push_long", "push_long1", "push_long4", "push_float", "push_binfloat",
    "push_string", "push_binstring", "push_short_binstring", "push_binbytes",
    "push_binbytes8", "push_short_binbytes", "push_bytearray8", "push_unicode",
    "push_binunicode", "push_binunicode8", "push_short_binunicode", "push_empty_tuple",
    "push_empty_list", "push_empty_dict", "push_empty_set", "push_global", "push_mark",
    "build_tuple", "build_tuple1", "build_tuple2", "build_tuple3", "build_list",
    "build_dict", "build_frozenset", "build_append", "build_appends", "build_setitem",
    "build_setitems", "build_additems", "build_inst", "build_obj", "build_newobj",
    "build_newobj_ex", "build_stack_global", "build_reduce", "build_build", "build_dup",
    "pop", "pop_mark", "memo_get", "memo_binget", "memo_long_binget", "memo_put",
    "memo_binput", "memo_long_binput", "memo_memoize" }

\* _is_opcode_method with the prefix 'push' alone
_is_opcode_method_push(method_name) ==
    startswith(NameChars(method_name), <<112, 117, 115, 104>>)

_is_opcode_method(method_name) ==
    \E prefix \in {<<112, 117, 115, 104>>, <<98, 117, 105, 108, 100>>, <<112, 111, 112>>,
                   <<109, 101, 109, 111>>} : startswith(NameChars(method_name), prefix)

\* _method_name_to_opcode with POP for every method whose name starts with pop
_method_name_to_opcode_pop(method_name) ==
    The({IF method_name \in {"push_false", "push_true"}
         THEN globals(<<78, 69, 87>> \o upper(SubSeq(c, 6, Len(c))))
         ELSE IF startswith(c, <<112, 111, 112>>) THEN globals(upper(SubSeq(c, 1, 3)))
         ELSE IF startswith(c, <<98, 117, 105, 108, 100>>) THEN globals(upper(SubSeq(c, 7, Len(c))))
         ELSE globals(upper(SubSeq(c, 6, Len(c))))
         : c \in {NameChars(method_name)}})

_method_name_to_opcode(method_name) ==
    The({IF method_name \in {"push_false", "push_true"}
         THEN globals(<<78, 69, 87>> \o upper(SubSeq(c, 6, Len(c))))
         ELSE IF startswith(c, <<112, 111, 112>>) THEN globals(upper(c))
         ELSE IF startswith(c, <<98, 117, 105, 108, 100>>) THEN globals(upper(SubSeq(c, 7, Len(c))))
         ELSE globals(upper(SubSeq(c, 6, Len(c))))
         : c \in {NameChars(method_name)}})

\* a call's arguments: a, b the positional arguments, enc the encoding name
Args(a, b, enc) == [a |-> a, b |-> b, enc |-> enc]

NoArgs == Args(NoneV, NoneV, "ascii")

\* func(self, args...) for the method of that name
func(method_name, self, args) ==
    CASE
         method_name = "push_none" -> push_none(self)
      [] method_name = "push_false" -> push_false(self)
      [] method_name = "push_true" -> push_true(self)
      [] method_name = "push_int" -> push_int(self, args.a)
      [] method_name = "push_binint" -> push_binint(self, args.a)
      [] method_name = "push_binint1" -> push_binint1(self, args.a)
      [] method_name = "push_binint2" -> push_binint2(self, args.a)
      [] method_name = "push_long" -> push_long(self, args.a)
      [] method_name = "push_long1" -> push_long1(self, args.a)
      [] method_name = "push_long4" -> push_long4(self, args.a)
      [] method_name = "push_float" -> push_float(self, args.a)
      [] method_name = "push_binfloat" -> push_binfloat(self, args.a)
      [] method_name = "push_string" -> push_string(self, args.a, args.enc)
      [] method_name = "push_binstring" -> push_binstring(self, args.a, args.enc)
      [] method_name = "push_short_binstring" -> push_short_binstring(self, args.a, args.enc)
      [] method_name = "push_binbytes" -> push_binbytes(self, args.a)
      [] method_name = "push_binbytes8" -> push_binbytes8(self, args.a)
      [] method_name = "push_short_binbytes" -> push_short_binbytes(self, args.a)
      [] method_name = "push_bytearray8" -> push_bytearray8(self, args.a)
      [] method_name = "push_unicode" -> push_unicode(self, args.a)
      [] method_name = "push_binunicode" -> push_binunicode(self, args.a)
      [] method_name = "push_binunicode8" -> push_binunicode8(self, args.a)
      [] method_name = "push_short_binunicode" -> push_short_binunicode(self, args.a)
      [] method_name = "push_empty_tuple" -> push_empty_tuple(self)
      [] method_name = "push_empty_list" -> push_empty_list(self)
      [] method_name = "push_empty_dict" -> push_empty_dict(self)
      [] method_name = "push_empty_set" -> push_empty_set(self)
      [] method_name = "push_global" -> push_global(self, args.a, args.b)
      [] method_name = "push_mark" -> push_mark(self)
      [] method_name = "build_tuple" -> build_tuple(self)
      [] method_name = "build_tuple1" -> build_tuple1(self)
      [] method_name = "build_tuple2" -> build_tuple2(self)
      [] method_name = "build_tuple3" -> build_tuple3(self)
      [] method_name = "build_list" -> build_list(self)
      [] method_name = "build_dict" -> build_dict(self)
      [] method_name = "build_frozenset" -> build_frozenset(self)
      [] method_name = "build_append" -> build_append(self)
      [] method_name = "build_appends" -> build_appends(self)
      [] method_name = "build_setitem" -> build_setitem(self)
      [] method_name = "build_setitems" -> build_setitems(self)
      [] method_name = "build_additems" -> build_additems(self)
      [] method_name = "build_inst" -> build_inst(self, args.a, args.b)
      [] method_name = "build_obj" -> build_obj(self)
      [] method_name = "build_newobj" -> build_newobj(self)
      [] method_name = "build_newobj_ex" -> build_newobj_ex(self)
      [] method_name = "build_stack_global" -> build_stack_global(self)
      [] method_name = "build_reduce" -> build_reduce(self)
      [] method_name = "build_build" -> build_build(self)
      [] method_name = "build_dup" -> build_dup(self)
      [] method_name = "pop" -> pop(self)
      [] method_name = "pop_mark" -> pop_mark(self)
      [] method_name = "memo_get" -> memo_get(self, args.a)
      [] method_name = "memo_binget" -> memo_binget(self, args.a)
      [] method_name = "memo_long_binget" -> memo_long_binget(self, args.a)
      [] method_name = "memo_put" -> memo_put(self, args.a)
      [] method_name = "memo_binput" -> memo_binput(self, args.a)
      [] method_name = "memo_long_binput" -> memo_long_binput(self, args.a)
      [] method_name = "memo_memoize" -> memo_memoize(self)

\* wrapper checking the protocol whatever verify says
wrapper_always_verifies(method_name, self, args) ==
    IF self.proto < _method_name_to_opcode(method_name).proto
    THEN Raise(self, "PickleProtocolMismatchError")
    ELSE func(method_name, self, args)

\* wrapper letting through an opcode one protocol above the assembler's
wrapper_off_by_one(method_name, self, args) ==
    IF self.verify /\ self.proto + 1 < _method_name_to_opcode(method_name).proto
    THEN Raise(self, "PickleProtocolMismatchError")
    ELSE func(method_name, self, args)

\* wrapper checking the protocol after the method has checked its arguments
wrapper_arguments_first(method_name, self, args) ==
    IF func(method_name, self, args).exc # "" THEN func(method_name, self, args)
    ELSE IF self.verify /\ self.proto < _method_name_to_opcode(method_name).proto
    THEN Raise(self, "PickleProtocolMismatchError")
    ELSE func(method_name, self, args)

\* _opcode_method_decorator(func).wrapper(self, args...)
wrapper(method_name, self, args) ==
    IF self.verify /\ self.proto < _method_name_to_opcode(method_name).proto
    THEN Raise(self, "PickleProtocolMismatchError")
    ELSE func(method_name, self, args)

(***************************************************************************)
(* Method calls.  call(self, name, args) is self.<name>(args...): the     *)
(* class attribute of that name, which for an opcode method is the wrapper *)
(* the decoration loop has put in its place.                               *)
(***************************************************************************)
RECURSIVE call(_, _, _)

\* self after a call that returned r
With(self, r) == Self(self.proto, self.verify, r.payload)

\* one positional argument
A1(a) == Args(a, NoneV, "ascii")

\* the statements that gave r, then self.<name>(args...): an exception ends the method
AndThen(self, r, name, args) == IF r.exc # "" THEN r ELSE call(With(self, r), name, args)

(***************************************************************************)
(* The util_* layer.                                                       *)
(***************************************************************************)
_util_push_bool(self, value) ==
    IF ~isinstance(value, "bool") THEN Raise(self, "TypeError")
    ELSE IF self.proto < 2 THEN call(self, "push_int", A1(value))
    ELSE IF value.z = Z(1) THEN call(self, "push_true", NoArgs)
    ELSE call(self, "push_false", NoArgs)

\* _util_push_int with < in place of <= at the upper ends of the ranges
_util_push_int_strict(self, value) ==
    IF ~isinstance(value, "int") THEN Raise(self, "TypeError")
    ELSE IF self.proto = 0 THEN call(self, "push_int", A1(value))
    ELSE IF ZLe(Z(0), value.z) /\ ZLt(value.z, ZSub(Pow2(8), Z(1)))
    THEN call(self, "push_binint1", A1(value))
    ELSE IF ZLe(Z(0), value.z) /\ ZLt(value.z, ZSub(Pow2(16), Z(1)))
    THEN call(self, "push_binint2", A1(value))
    ELSE IF ZLe(ZNeg(Pow2(31)), value.z) /\ ZLt(value.z, ZSub(Pow2(31), Z(1)))
    THEN call(self, "push_binint", A1(value))
    ELSE IF self.proto = 1 THEN call(self, "push_int", A1(value))
    ELSE IF ZLe(ZNeg(Pow2(2039)), value.z) /\ ZLt(value.z, ZSub(Pow2(2039), Z(1)))
    THEN call(self, "push_long1", A1(value))
    ELSE call(self, "push_long4", A1(value))

\* _util_push_int without the binary forms of protocol 1
_util_push_int_textual(self, value) ==
    IF ~isinstance(value, "int") THEN Raise(self, "TypeError")
    ELSE IF self.proto <= 1 THEN call(self, "push_int", A1(value))
    ELSE IF ZLe(Z(0), value.z) /\ ZLe(value.z, ZSub(Pow2(8), Z(1)))
    THEN call(self, "push_binint1", A1(value))
    ELSE IF ZLe(Z(0), value.z) /\ ZLe(value.z, ZSub(Pow2(16), Z(1)))
    THEN call(self, "push_binint2", A1(value))
    ELSE IF ZLe(ZNeg(Pow2(31)), value.z) /\ ZLe(value.z, ZSub(Pow2(31), Z(1)))
    THEN call(self, "push_binint", A1(value))
    ELSE IF ZLe(ZNeg(Pow2(2039)), value.z) /\ ZLe(value.z, ZSub(Pow2(2039), Z(1)))
    THEN call(self, "push_long1", A1(value))
    ELSE call(self, "push_long4", A1(value))

_util_push_int(self, value) ==
    IF ~isinstance(value, "int") THEN Raise(self, "TypeError")
    ELSE IF self.proto = 0 THEN call(self, "push_int", A1(value))
    ELSE IF ZLe(Z(0), value.z) /\ ZLe(value.z, ZSub(Pow2(8), Z(1)))
    THEN call(self, "push_binint1", A1(value))
    ELSE IF ZLe(Z(0), value.z) /\ ZLe(value.z, ZSub(Pow2(16), Z(1)))
    THEN call(self, "push_binint2", A1(value))
    ELSE IF ZLe(ZNeg(Pow2(31)), value.z) /\ ZLe(value.z, ZSub(Pow2(31), Z(1)))
    THEN call(self, "push_binint", A1(value))
    ELSE IF self.proto = 1 THEN call(self, "push_int", A1(value))
    ELSE IF ZLe(ZNeg(Pow2(2039)), value.z) /\ ZLe(value.z, ZSub(Pow2(2039), Z(1)))
    THEN call(self, "push_long1", A1(value))
    ELSE call(self, "push_long4", A1(value))

\* _util_push_float with BINFLOAT at every protocol
_util_push_float_binary(self, value) ==
    IF ~isinstance(value, "float") THEN Raise(self, "TypeError")
    ELSE call(self, "push_binfloat", A1(value))

_util_push_float(self, value) ==
    IF ~isinstance(value, "float") THEN Raise(self, "TypeError")
    ELSE IF self.proto = 0 THEN call(self, "push_float", A1(value))
    ELSE call(self, "push_binfloat", A1(value))

\* _util_push_bytes with <= 2 ** 8 for the short form
_util_push_bytes_le(self, value) ==
    IF ~isinstance(value, "bytes") THEN Raise(self, "TypeError")
    ELSE IF self.proto < 3 THEN Raise(self, "PickleProtocolMismatchError")
    ELSE IF Len(value.data) <= 2 ^ 8 THEN call(self, "push_short_binbytes", A1(value))
    ELSE IF ZLt(Z(Len(value.data)), Pow2(32)) THEN call(self, "push_binbytes", A1(value))
    ELSE IF self.proto < 4 THEN Raise(self, "ValueError")
    ELSE call(self, "push_binbytes8", A1(value))

_util_push_bytes(self, value) ==
    IF ~isinstance(value, "bytes") THEN Raise(self, "TypeError")
    ELSE IF self.proto < 3 THEN Raise(self, "PickleProtocolMismatchError")
    ELSE IF Len(value.data) < 2 ^ 8 THEN call(self, "push_short_binbytes", A1(value))
    ELSE IF ZLt(Z(Len(value.data)), Pow2(32)) THEN call(self, "push_binbytes", A1(value))
    ELSE IF self.proto < 4 THEN Raise(self, "ValueError")
    ELSE call(self, "push_binbytes8", A1(value))

\* the selection with the character count limit of 2 ** 8 included
unicode_method_le(self, length) ==
    IF self.proto < 4
    THEN (IF ZLt(length, Pow2(32)) THEN "push_binunicode" ELSE "push_unicode")
    ELSE IF ZLe(length, Pow2(8)) THEN "push_short_binunicode"
    ELSE IF ZLt(length, Pow2(32)) THEN "push_binunicode"
    ELSE "push_binunicode8"

\* the method _util_push_unicode calls at protocol 1 and later for a str of
\* that UTF-8 length, the length a Python int
unicode_method(self, length) ==
    IF self.proto < 4
    THEN (IF ZLt(length, Pow2(32)) THEN "push_binunicode" ELSE "push_unicode")
    ELSE IF ZLt(length, Pow2(8)) THEN "push_short_binunicode"
    ELSE IF ZLt(length, Pow2(32)) THEN "push_binunicode"
    ELSE "push_binunicode8"

_util_push_unicode(self, value) ==
    IF ~isinstance(value, "str") THEN Raise(self, "TypeError")
    ELSE IF self.proto = 0 THEN call(self, "push_unicode", A1(value))
    ELSE call(self,
              unicode_method(self, Z(Len(str_encode(value.data, "utf-8", "surrogatepass").bytes))),
              A1(value))

\* for item in items: self.util_push(item), from the i-th item on
RECURSIVE util_push_each(_, _, _)
util_push_each(self, items, i) ==
    IF i > Len(items) THEN Emit(self, <<>>)
    ELSE The({IF r.exc # "" THEN r ELSE util_push_each(With(self, r), items, i + 1)
              : r \in {call(self, "util_push", A1(items[i]))}})

\* the statements that gave r, then the loop over items
AndThenEach(self, r, items) ==
    IF r.exc # "" THEN r ELSE util_push_each(With(self, r), items, 1)

\* short_flag without the protocol
short_flag_any_protocol(self, value) == Len(value.items) <= 3

short_flag(self, value) == self.proto >= 2 /\ Len(value.items) <= 3

\* 'build_tuple' + str(len(value)) for a short tuple
build_tuple_n(value) ==
    CASE Len(value.items) = 1 -> "build_tuple1"
      [] Len(value.items) = 2 -> "build_tuple2"
      [] Len(value.items) = 3 -> "build_tuple3"

_util_push_tuple(self, value) ==
    IF ~isinstance(value, "tuple") THEN Raise(self, "TypeError")
    ELSE IF value.items = <<>>
    THEN IF self.proto = 0
         THEN AndThen(self, call(self, "push_mark", NoArgs), "build_tuple", NoArgs)
         ELSE call(self, "push_empty_tuple", NoArgs)
    ELSE AndThen(self,
                 AndThenEach(self,
                             IF ~short_flag(self, value) THEN call(self, "push_mark", NoArgs)
                             ELSE Emit(self, <<>>),
                             value.items),
                 IF short_flag(self, value) THEN build_tuple_n(value) ELSE "build_tuple",
                 NoArgs)

_util_push_list(self, value) ==
    IF ~isinstance(value, "list") THEN Raise(self, "TypeError")
    ELSE IF value.items = <<>>
    THEN IF self.proto = 0
         THEN AndThen(self, call(self, "push_mark", NoArgs), "build_list", NoArgs)
         ELSE call(self, "push_empty_list", NoArgs)
    ELSE AndThen(self, AndThenEach(self, call(self, "push_mark", NoArgs), value.items),
                 "build_list", NoArgs)

\* _util_push_dict with EMPTY_DICT at protocol 0 too
_util_push_dict_empty(self, value) ==
    IF ~isinstance(value, "dict") THEN Raise(self, "TypeError")
    ELSE IF value.items = <<>> THEN call(self, "push_empty_dict", NoArgs)
    ELSE AndThen(self, AndThenEach(self, call(self, "push_mark", NoArgs), value.items),
                 "build_dict", NoArgs)

\* value.items() yields k, v in iteration order: each is pushed in turn
_util_push_dict(self, value) ==
    IF ~isinstance(value, "dict") THEN Raise(self, "TypeError")
    ELSE IF value.items = <<>>
    THEN IF self.proto = 0
         THEN AndThen(self, call(self, "push_mark", NoArgs), "build_dict", NoArgs)
         ELSE call(self, "push_empty_dict", NoArgs)
    ELSE AndThen(self, AndThenEach(self, call(self, "push_mark", NoArgs), value.items),
                 "build_dict", NoArgs)

\* util_push with None pushed for a value of any other type
util_push_lenient(self, value) ==
    IF value = NoneV THEN call(self, "push_none", NoArgs)
    ELSE IF isinstance(value, "bool") THEN call(self, "_util_push_bool", A1(value))
    ELSE IF isinstance(value, "int") THEN call(self, "_util_push_int", A1(value))
    ELSE IF isinstance(value, "float") THEN call(self, "_util_push_float", A1(value))
    ELSE IF isinstance(value, "bytes") THEN call(self, "_util_push_bytes", A1(value))
    ELSE IF isinstance(value, "str") THEN call(self, "_util_push_unicode", A1(value))
    ELSE IF isinstance(value, "tuple") THEN call(self, "_util_push_tuple", A1(value))
    ELSE IF isinstance(value, "list") THEN call(self, "_util_push_list", A1(value))
    ELSE IF isinstance(value, "dict") THEN call(self, "_util_push_dict", A1(value))
    ELSE call(self, "push_none", NoArgs)

util_push(self, value) ==
    IF value = NoneV THEN call(self, "push_none", NoArgs)
    ELSE IF isinstance(value, "bool") THEN call(self, "_util_push_bool", A1(value))
    ELSE IF isinstance(value, "int") THEN call(self, "_util_push_int", A1(value))
    ELSE IF isinstance(value, "float") THEN call(self, "_util_push_float", A1(value))
    ELSE IF isinstance(value, "bytes") THEN call(self, "_util_push_bytes", A1(value))
    ELSE IF isinstance(value, "str") THEN call(self, "_util_push_unicode", A1(value))
    ELSE IF isinstance(value, "tuple") THEN call(self, "_util_push_tuple", A1(value))
    ELSE IF isinstance(value, "list") THEN call(self, "_util_push_list", A1(value))
    ELSE IF isinstance(value, "dict") THEN call(self, "_util_push_dict", A1(value))
    ELSE Raise(self, "TypeError")

\* util_memo_get with < in place of <= at the upper ends of the ranges
util_memo_get_strict(self, index) ==
    IF ~isinstance(index, "int") THEN Raise(self, "TypeError")
    ELSE IF ZLt(index.z, Z(0)) THEN Raise(self, "ValueError")
    ELSE IF self.proto = 0 THEN call(self, "memo_get", A1(index))
    ELSE IF ZLe(Z(0), index.z) /\ ZLt(index.z, ZSub(Pow2(8), Z(1)))
    THEN call(self, "memo_binget", A1(index))
    ELSE IF ZLe(Z(0), index.z) /\ ZLt(index.z, ZSub(Pow2(32), Z(1)))
    THEN call(self, "memo_long_binget", A1(index))
    ELSE call(self, "memo_get", A1(index))

util_memo_get(self, index) ==
    IF ~isinstance(index, "int") THEN Raise(self, "TypeError")
    ELSE IF ZLt(index.z, Z(0)) THEN Raise(self, "ValueError")
    ELSE IF self.proto = 0 THEN call(self, "memo_get", A1(index))
    ELSE IF ZLe(Z(0), index.z) /\ ZLe(index.z, ZSub(Pow2(8), Z(1)))
    THEN call(self, "memo_binget", A1(index))
    ELSE IF ZLe(Z(0), index.z) /\ ZLe(index.z, ZSub(Pow2(32), Z(1)))
    THEN call(self, "memo_long_binget", A1(index))
    ELSE call(self, "memo_get", A1(index))

util_memo_put(self, index) ==
    IF ~isinstance(index, "int") THEN Raise(self, "TypeError")
    ELSE IF ZLt(index.z, Z(0)) THEN Raise(self, "ValueError")
    ELSE IF self.proto = 0 THEN call(self, "memo_put", A1(index))
    ELSE IF ZLe(Z(0), index.z) /\ ZLe(index.z, ZSub(Pow2(8), Z(1)))
    THEN call(self, "memo_binput", A1(index))
    ELSE IF ZLe(Z(0), index.z) /\ ZLe(index.z, ZSub(Pow2(32), Z(1)))
    THEN call(self, "memo_long_binput", A1(index))
    ELSE call(self, "memo_put", A1(index))

call(self, name, args) ==
    IF _is_opcode_method(name) THEN wrapper(name, self, args)
    ELSE CASE name = "append_raw" -> append_raw(self, args.a)
           [] name = "_util_push_bool" -> _util_push_bool(self, args.a)
           [] name = "_util_push_int" -> _util_push_int(self, args.a)
           [] name = "_util_push_float" -> _util_push_float(self, args.a)
           [] name = "_util_push_bytes" -> _util_push_bytes(self, args.a)
           [] name = "_util_push_unicode" -> _util_push_unicode(self, args.a)
           [] name = "_util_push_tuple" -> _util_push_tuple(self, args.a)
           [] name = "_util_push_list" -> _util_push_list(self, args.a)
           [] name = "_util_push_dict" -> _util_push_dict(self, args.a)
           [] name = "util_push" -> util_push(self, args.a)
           [] name = "util_memo_get" -> util_memo_get(self, args.a)
           [] name = "util_memo_put" -> util_memo_put(self, args.a)

(***************************************************************************)
(* The arguments the calls are tried with.                                 *)
(***************************************************************************)
\* integers around every threshold of the int methods and of _util_push_int
IntInputs ==
    {Z(0), Z(1), Z(127), Z(128), Z(255), Z(256), Z(32767), Z(32768), Z(65535), Z(65536),
     ZSub(Pow2(31), Z(1)), Pow2(31), ZSub(Pow2(32), Z(1)), Pow2(32), Pow2(64),
     Z(-1), Z(-9), Z(-10), Z(-128), Z(-129), Z(-32768), Z(-32769), Z(-8388608), Z(-8388609),
     ZNeg(Pow2(31)), ZSub(ZNeg(Pow2(31)), Z(1)), ZSub(ZNeg(Pow2(63)), Z(1))}

\* the integers around the LONG1 / LONG4 limit of 255 bytes
GiantInputs ==
    {ZSub(Pow2(2039), Z(1)), Pow2(2039), ZNeg(Pow2(2039)), ZSub(ZNeg(Pow2(2039)), Z(1))}

\* '', 'x', 'os', 'bar\n<U+4E2D><U+6587>', '\\', '\\u0041', '\0\r\x1a', U+00E9,
\* a lone surrogate U+D800, U+1F600, "it's", 'a"b', '\x7f\x80\xff', and strings
\* at the 255 / 256 byte limit of the short forms
StrInputs ==
    {<<>>, <<120>>, <<111, 115>>, <<98, 97, 114, 10, 20013, 25991>>, <<92>>,
     <<92, 117, 48, 48, 52, 49>>, <<0, 13, 26>>, <<233>>, <<55296>>, <<128512>>,
     <<105, 116, 39, 115>>, <<97, 34, 98>>, <<127, 128, 255>>,
     Repeat(120, 255), Repeat(120, 256), Repeat(233, 128), Repeat(233, 127) \o <<120>>}

\* b'', b'foo', b'\x00\xff', and byte strings at the 255 / 256 byte limit
BytesInputs == {<<>>, <<102, 111, 111>>, <<0, 255>>, Repeat(120, 255), Repeat(120, 256)}

FloatInputs == {Float21, Float15, <<128, 0, 0, 0, 0, 0, 0, 0>>}

EncodingInputs == {"ascii", "latin-1", "utf-8", "x"}

\* one value of every type, given to every method whatever type it expects
AnyTypeInputs ==
    {NoneV, BoolV(TRUE), BoolV(FALSE), IntV(Z(1)), FloatV(Float21), StrV(<<120>>),
     BytesV(<<120>>), ByteArrayV(<<120>>), TupleV(<<IntV(Z(1))>>)}

\* (module, name) of push_global and build_inst; one name is 'a', LF, ')'
PairInputs ==
    {<<StrV(<<111, 115>>), StrV(<<115, 121, 115, 116, 101, 109>>)>>,
     <<StrV(<<111, 115>>), BytesV(<<115, 121, 115, 116, 101, 109>>)>>,
     <<BytesV(<<111, 115>>), StrV(<<115, 121, 115, 116, 101, 109>>)>>,
     <<StrV(<<55296>>), StrV(<<120>>)>>,
     <<StrV(<<111, 115>>), StrV(<<55296>>)>>,
     <<StrV(<<233>>), StrV(<<120>>)>>,
     <<StrV(<<111, 115>>), StrV(<<233>>)>>,
     <<StrV(<<111, 115>>), StrV(<<97, 10, 41>>)>>,
     <<StrV(<<>>), StrV(<<>>)>>}

\* tuples, lists and dicts: empty, of every short-tuple length, nested, and
\* holding a value util_push cannot encode after ones it can
ContainerInputs ==
    {TupleV(<<>>), TupleV(<<IntV(Z(1))>>), TupleV(<<IntV(Z(1)), IntV(Z(2))>>),
     TupleV(<<IntV(Z(1)), IntV(Z(2)), IntV(Z(3))>>),
     TupleV(<<IntV(Z(1)), IntV(Z(2)), IntV(Z(3)), IntV(Z(4))>>),
     ListV(<<>>), ListV(<<IntV(Z(1))>>), ListV(<<NoneV, StrV(<<97>>)>>),
     DictV(<<>>), DictV(<<StrV(<<97>>), IntV(Z(1))>>),
     DictV(<<IntV(Z(1)), ListV(<<IntV(Z(2)), TupleV(<<IntV(Z(3))>>)>>),
             StrV(<<107>>), DictV(<<>>)>>),
     TupleV(<<TupleV(<<TupleV(<<TupleV(<<>>)>>)>>)>>),
     ListV(<<ListV(<<ListV(<<>>)>>)>>),
     TupleV(<<BoolV(TRUE), ListV(<<BoolV(FALSE), DictV(<<IntV(Z(0)), IntV(Z(-1))>>)>>)>>),
     TupleV(<<StrV(<<98, 97, 114, 10, 20013, 25991>>), IntV(Pow2(31)), BytesV(<<102, 111, 111>>)>>),
     ListV(<<FloatV(Float15)>>),
     ListV(<<IntV(Z(1)), FrozenSetV(<<>>)>>),
     TupleV(<<IntV(Z(1)), ListV(<<StrV(<<97>>), ByteArrayV(<<120>>)>>)>>),
     DictV(<<StrV(<<97>>), IntV(Z(1)), StrV(<<107>>), FrozenSetV(<<>>)>>),
     TupleV(<<BytesV(<<120>>)>>),
     ListV(<<NoneV, BytesV(<<120>>)>>),
     DictV(<<StrV(<<97>>), TupleV(<<IntV(Z(1)), BytesV(<<120>>)>>)>>),
     ListV(<<BytesV(<<120>>), FrozenSetV(<<>>)>>),
     FrozenSetV(<<>>)}

UtilInputs ==
    AnyTypeInputs
    \cup {IntV(z) : z \in IntInputs \cup GiantInputs}
    \cup {FloatV(d) : d \in FloatInputs}
    \cup {BytesV(b) : b \in BytesInputs}
    \cup {StrV(s) : s \in StrInputs}
    \cup ContainerInputs

MemoInputs ==
    AnyTypeInputs
    \cup {IntV(z) : z \in {Z(0), Z(255), Z(256), ZSub(Pow2(32), Z(1)), Pow2(32), Z(-1)}}

RawInputs == {BytesV(b) : b \in BytesInputs} \cup AnyTypeInputs

\* the opcode methods by signature: (self), (self, value: int), ...
NoArgMethods ==
    {"push_none", "push_false", "push_true", "push_empty_tuple", "push_empty_list",
     "push_empty_dict", "push_empty_set", "push_mark", "build_tuple", "build_tuple1",
     "build_tuple2", "build_tuple3", "build_list", "build_dict", "build_frozenset",
     "build_append", "build_appends", "build_setitem", "build_setitems", "build_additems",
     "build_obj", "build_newobj", "build_newobj_ex", "build_stack_global", "build_reduce",
     "build_build", "build_dup", "pop", "pop_mark", "memo_memoize"}

IntMethods ==
    {"push_int", "push_binint", "push_binint1", "push_binint2", "push_long", "memo_get",
     "memo_binget", "memo_long_binget", "memo_put", "memo_binput", "memo_long_binput"}

LongMethods == {"push_long1", "push_long4"}

FloatMethods == {"push_float", "push_binfloat"}

EncodingMethods == {"push_string", "push_binstring", "push_short_binstring"}

UnicodeMethods ==
    {"push_unicode", "push_binunicode", "push_binunicode8", "push_short_binunicode"}

BytesMethods == {"push_binbytes", "push_binbytes8", "push_short_binbytes", "push_bytearray8"}

PairMethods == {"push_global", "build_inst"}

\* the argument lists a method is tried with
ArgsOf(method_name) ==
    IF method_name \in NoArgMethods THEN {NoArgs}
    ELSE IF method_name \in IntMethods
    THEN {A1(v) : v \in AnyTypeInputs \cup {IntV(z) : z \in IntInputs}}
    ELSE IF method_name \in LongMethods
    THEN {A1(v) : v \in AnyTypeInputs \cup {IntV(z) : z \in IntInputs \cup GiantInputs}}
    ELSE IF method_name \in FloatMethods
    THEN {A1(v) : v \in AnyTypeInputs \cup {FloatV(d) : d \in FloatInputs}}
    ELSE IF method_name \in EncodingMethods
    THEN {Args(v, NoneV, e) : v \in AnyTypeInputs \cup {StrV(s) : s \in StrInputs},
                              e \in EncodingInputs}
    ELSE IF method_name \in UnicodeMethods
    THEN {A1(v) : v \in AnyTypeInputs \cup {StrV(s) : s \in StrInputs}}
    ELSE IF method_name \in BytesMethods
    THEN {A1(v) : v \in AnyTypeInputs \cup {BytesV(b) : b \in BytesInputs}}
    ELSE {Args(p[1], p[2], "ascii") : p \in PairInputs}

(***************************************************************************)
(* The state machine: one PickleAssembler and the calls made on it.        *)
(*   proto, verify, payload   the object's fields                          *)
(*   calls                    the number of calls made so far              *)
(*   last                     the latest call: its name and arguments, the *)
(*                            exception it raised ("" if none), the buffer *)
(*                            before it (pre) and the bytes it returned    *)
(***************************************************************************)
\* the longest sequence of calls on one assembler
MaxCalls == 2

Call(op, args) == [op |-> op, args |-> args]

\* A fresh assembler is tried with every call and every argument; the calls
\* that follow one another in longer sequences are these.
ShortCalls ==
    {Call("push_none", NoArgs), Call("push_mark", NoArgs), Call("build_reduce", NoArgs),
     Call("pop", NoArgs), Call("memo_memoize", NoArgs),
     Call("push_binint1", A1(IntV(Z(1)))), Call("push_binint1", A1(IntV(Z(256)))),
     Call("push_binbytes", A1(BytesV(<<102, 111, 111>>))),
     Call("push_global", Args(StrV(<<111, 115>>), StrV(<<115, 121, 115, 116, 101, 109>>), "ascii")),
     Call("push_global", Args(StrV(<<111, 115>>), StrV(<<55296>>), "ascii")),
     Call("build_inst", Args(StrV(<<233>>), StrV(<<120>>), "ascii")),
     Call("memo_binput", A1(IntV(Z(0)))),
     Call("append_raw", A1(BytesV(<<102, 111, 111>>))), Call("append_raw", A1(StrV(<<120>>))),
     Call("util_push", A1(IntV(Z(-1)))), Call("util_push", A1(BytesV(<<120>>))),
     Call("util_push", A1(ListV(<<IntV(Z(1)), FrozenSetV(<<>>)>>))),
     Call("util_push", A1(ListV(<<NoneV, StrV(<<97>>)>>))),
     Call("util_memo_get", A1(IntV(Z(0)))), Call("util_memo_put", A1(IntV(Z(-1)))),
     Call("assemble", NoArgs)}

Offered(op, args) == calls = 0 \/ Call(op, args) \in ShortCalls

\* the assembler the next call is made on
this == Self(proto, verify, payload)

\* the call op(args...) left r = [payload, exc] and returned ret
Done(op, args, r, ret) ==
    /\ payload' = r.payload
    /\ last' = [op |-> op, args |-> args, exc |-> r.exc, pre |-> payload, ret |-> ret]
    /\ calls' = IF Call(op, args) \in ShortCalls THEN calls + 1 ELSE MaxCalls
    /\ UNCHANGED <<proto, verify>>

\* PickleAssembler(proto, verify) for every protocol it accepts
Init ==
    /\ proto \in 0..HIGHEST_PROTOCOL
    /\ verify \in BOOLEAN
    /\ init(proto, verify).exc = ""
    /\ payload = init(proto, verify).self.payload
    /\ calls = 0
    /\ last = [op |-> "__init__", args |-> NoArgs, exc |-> "", pre |-> <<>>, ret |-> <<>>]

\* the opcode methods whose name starts with prefix
MethodsWith(prefix) == {m \in OpcodeMethods : startswith(NameChars(m), prefix)}

\* a call of that opcode method
MethodCall(method_name) ==
    \E args \in ArgsOf(method_name) :
       /\ Offered(method_name, args)
       /\ Done(method_name, args, call(this, method_name, args), <<>>)

\* push_...
Push ==
    /\ calls < MaxCalls
    /\ \E method_name \in MethodsWith(<<112, 117, 115, 104>>) : MethodCall(method_name)

\* build_...
Build ==
    /\ calls < MaxCalls
    /\ \E method_name \in MethodsWith(<<98, 117, 105, 108, 100>>) : MethodCall(method_name)

\* pop, pop_mark
Pop ==
    /\ calls < MaxCalls
    /\ \E method_name \in MethodsWith(<<112, 111, 112>>) : MethodCall(method_name)

\* memo_...
Memo ==
    /\ calls < MaxCalls
    /\ \E method_name \in MethodsWith(<<109, 101, 109, 111>>) : MethodCall(method_name)

AppendRaw ==
    /\ calls < MaxCalls
    /\ \E data \in RawInputs :
          /\ Offered("append_raw", A1(data))
          /\ Done("append_raw", A1(data), call(this, "append_raw", A1(data)), <<>>)

UtilPush ==
    /\ calls < MaxCalls
    /\ \E value \in UtilInputs :
          /\ Offered("util_push", A1(value))
          /\ Done("util_push", A1(value), call(this, "util_push", A1(value)), <<>>)

UtilMemoGet ==
    /\ calls < MaxCalls
    /\ \E index \in MemoInputs :
          /\ Offered("util_memo_get", A1(index))
          /\ Done("util_memo_get", A1(index), call(this, "util_memo_get", A1(index)), <<>>)

UtilMemoPut ==
    /\ calls < MaxCalls
    /\ \E index \in MemoInputs :
          /\ Offered("util_memo_put", A1(index))
          /\ Done("util_memo_put", A1(index), call(this, "util_memo_put", A1(index)), <<>>)

Assemble ==
    /\ calls < MaxCalls
    /\ Offered("assemble", NoArgs)
    /\ Done("assemble", NoArgs, Emit(this, <<>>), assemble(this))

Next ==
    \/ Push
    \/ Build
    \/ Pop
    \/ Memo
    \/ AppendRaw
    \/ UtilPush
    \/ UtilMemoGet
    \/ UtilMemoPut
    \/ Assemble

Spec == Init /\ [][Next]_vars

(***************************************************************************)
(* The module's functions and the selection steps of the util_* layer,     *)
(* applied to arguments no buffer of the model can hold: one call each,    *)
(* recorded in last, beside util_push on a new assembler.                  *)
(***************************************************************************)
\* the integers packed: the ends of every word size and their neighbours
PackInputs ==
    IntInputs
    \cup {Z(-256), Z(-127), Z(-255), Z(-257), Z(32767), Z(-65536), Z(-65537), Z(8388607), Z(8388608),
          ZSub(Pow2(32), Z(289)), ZNeg(Pow2(32)), ZSub(Pow2(63), Z(1)), Pow2(63), ZNeg(Pow2(63)),
          ZSub(Pow2(64), Z(1)), ZNeg(Pow2(64)), ZNeg(ZAdd(Pow2(64), Z(1)))}

EndianInputs == {"<", ">", "little", "big", "?"}

WordSizeInputs == {NoneSize, 3, 8, 16, 32, 64}

\* the UTF-8 lengths a str can have, as Python ints
LengthInputs ==
    {Z(0), Z(1), Z(255), Z(256), Z(65536), ZSub(Pow2(31), Z(1)), Pow2(31),
     ZSub(Pow2(32), Z(1)), Pow2(32), ZAdd(Pow2(32), Z(1)), Pow2(64)}

PackArgs(x, endian, word_size, signed) ==
    [x |-> x, endian |-> endian, word_size |-> word_size, signed |-> signed]

LengthArgs(length) == [length |-> length]

\* the function call op(args...) gave r = [exc, bytes]
Returned(op, args, r) ==
    /\ last' = [op |-> op, args |-> args, exc |-> r.exc, pre |-> payload, ret |-> r.bytes]
    /\ UNCHANGED <<proto, verify, payload, calls>>

\* pack(x, endian=endian, word_size=word_size, signed=signed)
Pack ==
    /\ last.op = "__init__"
    /\ \E x \in PackInputs, endian \in EndianInputs, word_size \in WordSizeInputs,
          signed \in BOOLEAN :
          Returned("pack", PackArgs(x, endian, word_size, signed), pack(x, endian, word_size, signed))

\* p8(x, signed=signed), and p16, p32, p64
PackWord ==
    /\ last.op = "__init__"
    /\ \E x \in PackInputs, signed \in BOOLEAN :
          \/ Returned("p8", PackArgs(x, "<", 8, signed), p8(x, signed))
          \/ Returned("p16", PackArgs(x, "<", 16, signed), p16(x, signed))
          \/ Returned("p32", PackArgs(x, "<", 32, signed), p32(x, signed))
          \/ Returned("p64", PackArgs(x, "<", 64, signed), p64(x, signed))

\* the selection of _util_push_unicode for a str of that UTF-8 length
SelectUnicode ==
    /\ last.op = "__init__" /\ proto >= 1
    /\ \E length \in LengthInputs :
          Returned("unicode_method", LengthArgs(length),
                   [exc |-> "", bytes |-> NameChars(unicode_method(this, length))])

\* util_push(value) on the new assembler
FirstUtilPush == last.op = "__init__" /\ UtilPush

\* push_long1 and push_long4 on a new assembler
FirstPushLong ==
    /\ last.op = "__init__"
    /\ \E method_name \in LongMethods : MethodCall(method_name)

\* the length check of push_long4, for packed forms too long to write out
CheckLong4 ==
    /\ last.op = "__init__" /\ proto >= 2
    /\ \E length \in LengthInputs :
          Returned("push_long4_check", LengthArgs(length),
                   [exc |-> push_long4_check(length), bytes |-> <<>>])

FunctionNext ==
    Pack \/ PackWord \/ SelectUnicode \/ FirstUtilPush \/ FirstPushLong \/ CheckLong4

FunctionSpec == Init /\ [][FunctionNext]_vars

(***************************************************************************)
(* A stack decoder for the opcodes util_push emits, as the comments of the *)
(* opcode table describe them: it replays an assembled payload and gives   *)
(* the value the payload builds.  Its state is [pos, stack, done, ok]: the *)
(* next byte to read, the stack (a markobject has type "mark"), STOP read, *)
(* and no error so far.                                                    *)
(***************************************************************************)
\* int.from_bytes(b, byteorder='little', signed=signed)
from_bytes(b, signed) ==
    IF signed /\ b # <<>> /\ b[Len(b)] >= 128
    THEN MkInt(TRUE, MagSub(Pow2(8 * Len(b)).mag, MagNorm(b)))
    ELSE MkInt(FALSE, MagNorm(b))

\* acc * 10^n + the number of the n decimal digits s[i], ..., s[i + n - 1]
MulAddStep(k, st, s) == [out |-> Append(st.out, s % 256), c |-> s \div 256, i |-> st.i + 1, m |-> st.m]

RECURSIVE MulAddLoop(_, _, _)
MulAddLoop(k, st, n) ==
    IF n <= 0 THEN st
    ELSE IF n = 1 THEN MulAddStep(k, st, (MagDigit(st.m, st.i) * k) + st.c)
    ELSE The({MulAddLoop(k, h, n - (n \div 2)) : h \in {MulAddLoop(k, st, n \div 2)}})

\* m * k + c for small k, c (k * 256 below 2^31)
MagMulAdd(m, k, c) ==
    MagNorm(MulAddLoop(k, [out |-> <<>>, c |-> c, i |-> 1, m |-> m], Len(m) + 4).out)

IsDigits(s) == s # <<>> /\ \A i \in 1..Len(s) : s[i] \in 48..57

\* the number written by the decimal digits s[i], ..., s[i + n - 1], n <= 6
RECURSIVE Chunk(_, _, _)
Chunk(s, i, n) == IF n = 0 THEN 0 ELSE Chunk(s, i, n - 1) * 10 + (s[i + n - 1] - 48)

ChunkLen(s, i) == IF Len(s) - i + 1 >= 6 THEN 6 ELSE Len(s) - i + 1

FromDecimalStep(s, st) ==
    IF st.i > Len(s) THEN st
    ELSE [acc |-> MagMulAdd(st.acc, 10 ^ ChunkLen(s, st.i), Chunk(s, st.i, ChunkLen(s, st.i))),
          i |-> st.i + ChunkLen(s, st.i)]

RECURSIVE FromDecimalLoop(_, _, _)
FromDecimalLoop(s, st, n) ==
    IF n <= 0 THEN st
    ELSE IF n = 1 THEN FromDecimalStep(s, st)
    ELSE The({FromDecimalLoop(s, h, n - (n \div 2)) : h \in {FromDecimalLoop(s, st, n \div 2)}})

\* int(s) for decimal digits s, six digits a round
MagFromDecimal(s) == FromDecimalLoop(s, [acc |-> <<>>, i |-> 1], (Len(s) + 5) \div 6).acc

HexValue(b) == IF b \in 48..57 THEN b - 48 ELSE IF b \in 97..102 THEN b - 87 ELSE b - 55

IsHex(b) == b \in 48..57 \/ b \in 97..102 \/ b \in 65..70

\* the number written by the n hexadecimal digits b[i], ..., b[i + n - 1]
RECURSIVE HexAt(_, _, _)
HexAt(b, i, n) == IF n = 0 THEN 0 ELSE HexAt(b, i, n - 1) * 16 + HexValue(b[i + n - 1])

AllHex(b, i, n) == i + n - 1 <= Len(b) /\ \A j \in i..(i + n - 1) : IsHex(b[j])

\* one character of bytes.decode('utf-8', 'surrogatepass') of well-formed input
Utf8Step(b, st) ==
    IF st.i > Len(b) THEN st
    ELSE IF b[st.i] < 128 THEN [out |-> Append(st.out, b[st.i]), i |-> st.i + 1]
    ELSE IF b[st.i] < 224
    THEN [out |-> Append(st.out, (b[st.i] % 32) * 64 + (b[st.i + 1] % 64)), i |-> st.i + 2]
    ELSE IF b[st.i] < 240
    THEN [out |-> Append(st.out, (b[st.i] % 16) * 4096 + (b[st.i + 1] % 64) * 64
                                 + (b[st.i + 2] % 64)),
          i |-> st.i + 3]
    ELSE [out |-> Append(st.out, (b[st.i] % 8) * 262144 + (b[st.i + 1] % 64) * 4096
                                 + (b[st.i + 2] % 64) * 64 + (b[st.i + 3] % 64)),
          i |-> st.i + 4]

RECURSIVE Utf8Loop(_, _, _)
Utf8Loop(b, st, n) ==
    IF n <= 0 THEN st
    ELSE IF n = 1 THEN Utf8Step(b, st)
    ELSE The({Utf8Loop(b, h, n - (n \div 2)) : h \in {Utf8Loop(b, st, n \div 2)}})

utf8_decode(b) == Utf8Loop(b, [out |-> <<>>, i |-> 1], Len(b)).out

\* one character of bytes.decode('raw-unicode-escape'): a backslash starts
\* \uXXXX or \UXXXXXXXX, or stands with the byte after it for themselves
RawStep(b, st) ==
    IF st.i > Len(b) \/ ~st.ok THEN st
    ELSE IF b[st.i] # 92 \/ st.i = Len(b)
    THEN [out |-> Append(st.out, b[st.i]), i |-> st.i + 1, ok |-> TRUE]
    ELSE IF b[st.i + 1] = 117
    THEN (IF AllHex(b, st.i + 2, 4)
          THEN [out |-> Append(st.out, HexAt(b, st.i + 2, 4)), i |-> st.i + 6, ok |-> TRUE]
          ELSE [st EXCEPT !.ok = FALSE])
    ELSE IF b[st.i + 1] = 85
    THEN (IF AllHex(b, st.i + 2, 8) /\ HexAt(b, st.i + 2, 2) = 0 /\ HexAt(b, st.i + 4, 6) <= 1114111
          THEN [out |-> Append(st.out, HexAt(b, st.i + 4, 6)), i |-> st.i + 10, ok |-> TRUE]
          ELSE [st EXCEPT !.ok = FALSE])
    ELSE [out |-> st.out \o <<92, b[st.i + 1]>>, i |-> st.i + 2, ok |-> TRUE]

RECURSIVE RawLoop(_, _, _)
RawLoop(b, st, n) ==
    IF n <= 0 THEN st
    ELSE IF n = 1 THEN RawStep(b, st)
    ELSE The({RawLoop(b, h, n - (n \div 2)) : h \in {RawLoop(b, st, n \div 2)}})

\* [ok, out]
raw_unicode_escape_decode(b) == RawLoop(b, [out |-> <<>>, i |-> 1, ok |-> TRUE], Len(b))

\* the byte of an opcode
Code(name) == Op(name).code[1]

MarkV == Val("mark", Z(0), <<>>, <<>>)

Fail(st) == [st EXCEPT !.ok = FALSE]

\* push v after reading used bytes
Pushed(st, v, used) == [st EXCEPT !.stack = Append(@, v), !.pos = @ + used]

\* the end of the line that starts at pos, 0 if the data has no newline there
LineEnd(data, pos) ==
    IF \E j \in pos..Len(data) : data[j] = 10
    THEN CHOOSE j \in pos..Len(data) : data[j] = 10 /\ \A k \in pos..(j - 1) : data[k] # 10
    ELSE 0

\* a little-endian unsigned length of up to four bytes, -1 if 2^31 or more
RECURSIVE LengthOf(_)
LengthOf(b) ==
    IF b = <<>> THEN 0
    ELSE IF Len(b) = 4 /\ b[4] >= 128 THEN -1
    ELSE b[1] + 256 * LengthOf(Tail(b))

\* the value of the decimal text of INT: 00 and 01 are the bools
load_int(line) ==
    IF line = <<48, 48>> THEN [ok |-> TRUE, v |-> BoolV(FALSE)]
    ELSE IF line = <<48, 49>> THEN [ok |-> TRUE, v |-> BoolV(TRUE)]
    ELSE IF IsDigits(line) /\ (line[1] # 48 \/ Len(line) = 1)
    THEN [ok |-> TRUE, v |-> IntV(MkInt(FALSE, MagFromDecimal(line)))]
    ELSE IF line # <<>> /\ line[1] = 45 /\ IsDigits(Tail(line))
            /\ (line[2] # 48 \/ Len(line) = 2)
    THEN [ok |-> TRUE, v |-> IntV(MkInt(TRUE, MagFromDecimal(Tail(line))))]
    ELSE [ok |-> FALSE, v |-> NoneV]

\* an opcode with a newline-terminated argument
load_line(data, st) ==
    LET e == LineEnd(data, st.pos + 1)
        line == SubSeq(data, st.pos + 1, e - 1)
        r == IF data[st.pos] = Code("INT") THEN load_int(line)
             ELSE LET d == raw_unicode_escape_decode(line)
                  IN  [ok |-> d.ok, v |-> StrV(d.out)]
    IN  IF e = 0 \/ ~r.ok THEN Fail(st) ELSE Pushed(st, r.v, e - st.pos + 1)

\* an opcode with a counted argument: lenbytes bytes of length, then the data
load_counted(data, st, lenbytes) ==
    LET n == IF st.pos + lenbytes <= Len(data)
             THEN LengthOf(SubSeq(data, st.pos + 1, st.pos + lenbytes)) ELSE -1
        body == SubSeq(data, st.pos + lenbytes + 1, st.pos + lenbytes + n)
        op == data[st.pos]
    IN  IF n < 0 \/ st.pos + lenbytes + n > Len(data) THEN Fail(st)
        ELSE Pushed(st,
                    IF op \in {Code("LONG1"), Code("LONG4")} THEN IntV(from_bytes(body, TRUE))
                    ELSE IF op \in {Code("BINBYTES"), Code("SHORT_BINBYTES")} THEN BytesV(body)
                    ELSE StrV(utf8_decode(body)),
                    1 + lenbytes + n)

\* an opcode with a fixed-width integer argument
load_fixed(data, st, nbytes, signed) ==
    IF st.pos + nbytes > Len(data) THEN Fail(st)
    ELSE Pushed(st, IntV(from_bytes(SubSeq(data, st.pos + 1, st.pos + nbytes), signed)),
                1 + nbytes)

\* the position of the topmost markobject, 0 if there is none
TopMark(stack) ==
    IF \E i \in 1..Len(stack) : stack[i] = MarkV
    THEN CHOOSE i \in 1..Len(stack) :
            stack[i] = MarkV /\ \A j \in (i + 1)..Len(stack) : stack[j] # MarkV
    ELSE 0

\* build a tuple, list or dict from the topmost mark stack items
load_from_mark(st, t) ==
    LET m == TopMark(st.stack)
        items == SubSeq(st.stack, m + 1, Len(st.stack))
    IN  IF m = 0 \/ (t = "dict" /\ Len(items) % 2 = 1) THEN Fail(st)
        ELSE [st EXCEPT !.stack = Append(SubSeq(st.stack, 1, m - 1), Val(t, Z(0), <<>>, items)),
                        !.pos = @ + 1]

\* build a tuple from the n topmost stack items
load_tuple_n(st, n) ==
    LET k == Len(st.stack)
        items == SubSeq(st.stack, k - n + 1, k)
    IN  IF k < n \/ \E i \in 1..Len(items) : items[i] = MarkV THEN Fail(st)
        ELSE [st EXCEPT !.stack = Append(SubSeq(st.stack, 1, k - n), TupleV(items)),
                        !.pos = @ + 1]

\* read and run one opcode
DecodeStep(data, st) ==
    IF st.done \/ ~st.ok THEN st
    ELSE IF st.pos > Len(data) THEN Fail(st)
    ELSE LET op == data[st.pos]
         IN  CASE op = Code("PROTO") ->
                    IF st.pos + 1 <= Len(data) /\ data[st.pos + 1] <= HIGHEST_PROTOCOL
                    THEN [st EXCEPT !.pos = @ + 2] ELSE Fail(st)
               [] op = Code("STOP") -> [st EXCEPT !.done = TRUE, !.pos = @ + 1]
               [] op = Code("NONE") -> Pushed(st, NoneV, 1)
               [] op = Code("NEWTRUE") -> Pushed(st, BoolV(TRUE), 1)
               [] op = Code("NEWFALSE") -> Pushed(st, BoolV(FALSE), 1)
               [] op \in {Code("INT"), Code("UNICODE")} -> load_line(data, st)
               [] op = Code("BININT") -> load_fixed(data, st, 4, TRUE)
               [] op = Code("BININT1") -> load_fixed(data, st, 1, FALSE)
               [] op = Code("BININT2") -> load_fixed(data, st, 2, FALSE)
               [] op \in {Code("LONG1"), Code("SHORT_BINBYTES"), Code("SHORT_BINUNICODE")} ->
                    load_counted(data, st, 1)
               [] op \in {Code("LONG4"), Code("BINBYTES"), Code("BINUNICODE")} ->
                    load_counted(data, st, 4)
               [] op = Code("MARK") -> Pushed(st, MarkV, 1)
               [] op = Code("TUPLE") -> load_from_mark(st, "tuple")
               [] op = Code("LIST") -> load_from_mark(st, "list")
               [] op = Code("DICT") -> load_from_mark(st, "dict")
               [] op = Code("EMPTY_TUPLE") -> Pushed(st, TupleV(<<>>), 1)
               [] op = Code("EMPTY_LIST") -> Pushed(st, ListV(<<>>), 1)
               [] op = Code("EMPTY_DICT") -> Pushed(st, DictV(<<>>), 1)
               [] op = Code("TUPLE1") -> load_tuple_n(st, 1)
               [] op = Code("TUPLE2") -> load_tuple_n(st, 2)
               [] op = Code("TUPLE3") -> load_tuple_n(st, 3)
               [] OTHER -> Fail(st)

RECURSIVE DecodeLoop(_, _, _)
DecodeLoop(data, st, n) ==
    IF n <= 0 THEN st
    ELSE IF n = 1 THEN DecodeStep(data, st)
    ELSE The({DecodeLoop(data, h, n - (n \div 2)) : h \in {DecodeLoop(data, st, n \div 2)}})

\* the decoder's state after STOP or an error; every opcode reads a byte
loads(data) == DecodeLoop(data, [pos |-> 1, stack |-> <<>>, done |-> FALSE, ok |-> TRUE], Len(data))

\* the payload is read to its last byte, ends at STOP and leaves one value
Decodes(data) ==
    /\ loads(data).ok /\ loads(data).done
    /\ loads(data).pos = Len(data) + 1
    /\ Len(loads(data).stack) = 1
    /\ loads(data).stack[1] # MarkV

(***************************************************************************)
(* The properties checked of the state machine.                            *)
(***************************************************************************)
\* the buffer of a newly constructed assembler
Fresh == init(proto, verify).self.payload

\* the assembler as it was when the latest call was made
before == Self(proto, verify, last.pre)

\* the number of bytes the latest call appended
Emitted == Len(payload) - Len(last.pre)

\* the opcode byte the latest call wrote first
FirstEmitted == payload[Len(last.pre) + 1]

\* values built from None, bools, ints, strs, bytes, tuples, lists and dicts
RECURSIVE Listed(_)
Listed(v) ==
    /\ v.t \in {"NoneType", "bool", "int", "str", "bytes", "tuple", "list", "dict"}
    /\ \A i \in 1..Len(v.items) : Listed(v.items[i])

\* C1: when util_push(v) succeeds on a fresh assembler, for v built from
\* None, bools, ints, strs, bytes, tuples, lists and dicts, the decoder reads
\* assemble() to its last byte, the STOP, and is left with the one value v,
\* equal and of the same type at every node.
RoundTrip ==
    (last.op = "util_push" /\ last.exc = "" /\ last.pre = Fresh /\ Listed(last.args.a))
        => (Decodes(assemble(this)) /\ loads(assemble(this)).stack = <<last.args.a>>)

\* a nested dict came back from protocol 0, a text with a backslash too
RoundTripWitness ==
    /\ last.op = "util_push" /\ last.exc = "" /\ last.pre = Fresh /\ proto = 0
    /\ \/ last.args.a.t = "dict" /\ Len(last.args.a.items) = 4
       \/ last.args.a.t = "str" /\ \E i \in 1..Len(last.args.a.data) : last.args.a.data[i] = 92
    /\ loads(assemble(this)).stack = <<last.args.a>>

\* the latest call is an opcode method whose opcode needs a later protocol
Gated == _is_opcode_method(last.op) /\ proto < _method_name_to_opcode(last.op).proto

\* the same call where the protocol allows the opcode
Allowed == call(Self(HIGHEST_PROTOCOL, TRUE, last.pre), last.op, last.args)

\* C2: an opcode method whose opcode needs a protocol above the assembler's
\* raises PickleProtocolMismatchError and leaves the buffer alone with
\* verify=True; with verify=False and valid arguments it succeeds and
\* appends the operation's bytes, the opcode first.
ProtocolGate ==
    Gated =>
        IF verify THEN last.exc = "PickleProtocolMismatchError" /\ payload = last.pre
        ELSE Allowed.exc = "" =>
                /\ last.exc = ""
                /\ payload = Allowed.payload
                /\ IsPrefix(last.pre \o _method_name_to_opcode(last.op).code, payload)

\* with verify=False a protocol 4 opcode went into a protocol 0 buffer
ProtocolGateWitness ==
    /\ Gated /\ ~verify /\ proto = 0 /\ _method_name_to_opcode(last.op).proto = 4
    /\ last.exc = "" /\ Emitted > 0

\* C3: on an assembler with verify=False no call raises
\* PickleProtocolMismatchError.
UnverifiedNeverMismatches == ~verify => last.exc # "PickleProtocolMismatchError"

\* C4: a util_push that fails leaves the buffer as it was before the call.
FailedUtilPushAppendsNothing ==
    (last.op = "util_push" /\ last.exc # "") => payload = last.pre

\* C5: an opcode method that raises leaves the buffer as it was before the
\* call.
FailedEmissionAppendsNothing ==
    (_is_opcode_method(last.op) /\ last.exc # "") => payload = last.pre

\* C6: assemble() returns the buffer followed by STOP and changes neither
\* the buffer nor proto nor verify; called again at once it returns the same
\* bytes; the calls after it extend the same buffer.
AssembleReadsOnly ==
    [][/\ last'.op = "assemble" =>
             /\ last'.exc = "" /\ last'.ret = payload \o Op("STOP").code
             /\ payload' = payload /\ proto' = proto /\ verify' = verify
             /\ assemble(Self(proto', verify', payload')) = last'.ret
       /\ last.op = "assemble" =>
             /\ IsPrefix(payload, payload')
             /\ (_is_opcode_method(last'.op) /\ last'.exc = "") => Len(payload') > Len(payload)
      ]_vars

\* assemble() was called on a buffer that held an emission
AssembleWitness ==
    last.op = "assemble" /\ last.pre # Fresh /\ last.ret = last.pre \o <<46>> /\ payload = last.pre

\* C7: with protocol 2 or more the buffer starts with PROTO and the protocol
\* byte, after construction and after every call; with protocol 0 or 1 the
\* buffer of a new assembler is empty.
HeaderStays ==
    /\ proto >= 2 => Len(payload) >= 2 /\ payload[1] = 128 /\ payload[2] = proto
    /\ (proto < 2 /\ last.op = "__init__") => payload = <<>>

\* the header is there after a call that failed and after append_raw
HeaderStaysWitness ==
    /\ proto = 2 /\ calls = MaxCalls /\ SubSeq(payload, 1, 2) = <<128, 2>>
    /\ last.exc # "" \/ last.op = "append_raw"

\* C8: a call leaves the buffer it found as a prefix of the buffer it
\* leaves: the length never decreases.
AppendOnly == [][IsPrefix(payload, payload') /\ Len(payload') >= Len(payload)]_vars

\* a failed call and append_raw each found bytes and left them in place
AppendOnlyWitness ==
    /\ last.pre # <<>> /\ IsPrefix(last.pre, payload)
    /\ \/ last.exc # "" /\ payload # last.pre
       \/ last.op = "append_raw" /\ last.exc = "" /\ payload # last.pre

\* the latest call is util_push of an int that is no bool
IntPush == last.op = "util_push" /\ last.args.a.t = "int"

Between(lo, z, hi) == ZLe(lo, z) /\ ZLe(z, hi)

\* the opcode the selection rule names for z at protocol p
Selected(p, z) ==
    IF p = 0 THEN "INT"
    ELSE IF Between(Z(0), z, Z(255)) THEN "BININT1"
    ELSE IF Between(Z(0), z, Z(65535)) THEN "BININT2"
    ELSE IF Between(ZNeg(Pow2(31)), z, ZSub(Pow2(31), Z(1))) THEN "BININT"
    ELSE IF p = 1 THEN "INT"
    ELSE IF Between(ZNeg(Pow2(2039)), z, ZSub(Pow2(2039), Z(1))) THEN "LONG1"
    ELSE "LONG4"

\* the methods that push an int
IntPushMethods ==
    {"push_int", "push_long", "push_binint1", "push_binint2", "push_binint", "push_long1",
     "push_long4"}

\* the method that emits the opcode of that name
MethodOf(name) == CHOOSE m \in IntPushMethods : _method_name_to_opcode(m).name = name

\* the values the rule is spelt out for at protocol 2 and later
Spelt ==
    {<<Z(0), "BININT1">>, <<Z(255), "BININT1">>, <<Z(256), "BININT2">>, <<Z(65535), "BININT2">>,
     <<Z(65536), "BININT">>, <<ZSub(Pow2(31), Z(1)), "BININT">>, <<Pow2(31), "LONG1">>}

\* C9: util_push of an int that is no bool emits one operation: INT at
\* protocol 0; else BININT1 for 0..255, else BININT2 for 0..65535, else
\* BININT for -2^31..2^31-1, else INT at protocol 1, else LONG1 for
\* -2^2039..2^2039-1, else LONG4; at protocol 2 and later 0, 255, 256,
\* 65535, 65536, 2^31-1 and 2^31 take BININT1, BININT1, BININT2, BININT2,
\* BININT, BININT and LONG1.
IntSelection ==
    IntPush =>
        /\ last.exc = ""
        /\ payload = func(MethodOf(Selected(proto, last.args.a.z)), before, last.args).payload
        /\ FirstEmitted = Code(Selected(proto, last.args.a.z))
        /\ \A e \in Spelt : (proto >= 2 /\ last.args.a.z = e[1]) => FirstEmitted = Code(e[2])

\* 2^31 went out as LONG1 at protocol 2 and as INT at protocol 1
IntSelectionWitness ==
    /\ IntPush /\ last.args.a.z = Pow2(31) /\ last.exc = ""
    /\ \/ proto = 2 /\ FirstEmitted = Code("LONG1")
       \/ proto = 1 /\ FirstEmitted = Code("INT")

\* the latest call appended no more bytes than any of those methods that is
\* legal at the protocol and accepts the value would have
Fewest ==
    \A m \in IntPushMethods :
        (_method_name_to_opcode(m).proto <= proto /\ func(m, before, last.args).exc = "")
            => Emitted <= Len(func(m, before, last.args).payload) - Len(last.pre)

\* the small negative ints for which a shorter form than BININT exists
SmallNegative ==
    \/ proto = 1 /\ Between(Z(-9), last.args.a.z, Z(-1))
    \/ proto >= 2 /\ Between(Z(-32768), last.args.a.z, Z(-1))

\* C10 as stated: the operation util_push selects for an int that is no
\* bool produces the fewest bytes among INT, LONG, BININT1, BININT2, BININT,
\* LONG1 and LONG4 that are legal at the protocol and accept the value.
FewestBytes == IntPush => Fewest

\* C10, amended: the operation selected produces the fewest bytes, except
\* for -9..-1 at protocol 1 and -32768..-1 at protocol 2 and later, where
\* the five bytes of BININT are selected although INT or LONG1 is shorter.
FewestBytesButSmallNegatives ==
    IntPush =>
        IF SmallNegative THEN ~Fewest /\ FirstEmitted = Code("BININT") /\ Emitted = 5
        ELSE Fewest

\* -1 went out in the five bytes of BININT at protocol 1, and 2^31 in the
\* seven of LONG1 at protocol 2
FewestBytesWitness ==
    /\ IntPush /\ last.exc = ""
    /\ \/ proto = 1 /\ last.args.a.z = Z(-1) /\ Emitted = 5
       \/ proto = 2 /\ last.args.a.z = Pow2(31) /\ Emitted = 7 /\ Fewest

\* values built from the types util_push supports
RECURSIVE Supported(_)
Supported(v) ==
    /\ v.t \in {"NoneType", "bool", "int", "float", "bytes", "str", "tuple", "list", "dict"}
    /\ \A i \in 1..Len(v.items) : Supported(v.items[i])

\* a byte string, or a container with one inside
RECURSIVE HoldsBytes(_)
HoldsBytes(v) == v.t = "bytes" \/ \E i \in 1..Len(v.items) : HoldsBytes(v.items[i])

UtilCall == last.op \in {"util_push", "util_memo_get", "util_memo_put"}

\* C11: with verify=True util_push of a supported value raises
\* PickleProtocolMismatchError only for a byte string below protocol 3, and
\* util_memo_get and util_memo_put of an index >= 0 never raise it: the
\* protocol gate never stops an operation the util_* layer selects, so the
\* call ends as it does with verify=False.
UtilSelectsLegal ==
    verify =>
        /\ (last.op = "util_push" /\ Supported(last.args.a)
              /\ last.exc = "PickleProtocolMismatchError")
              => (proto < 3 /\ HoldsBytes(last.args.a))
        /\ (last.op \in {"util_memo_get", "util_memo_put"} /\ isinstance(last.args.a, "int")
              /\ ZLe(Z(0), last.args.a.z))
              => last.exc = ""
        /\ UtilCall =>
              [payload |-> payload, exc |-> last.exc]
                 = call(Self(proto, FALSE, last.pre), last.op, last.args)

\* with verify=True a bool inside a tuple went out at protocol 1, and a
\* memo index at protocol 0
UtilSelectsLegalWitness ==
    /\ verify /\ last.exc = "" /\ Emitted > 0
    /\ \/ proto = 1 /\ last.op = "util_push" /\ last.args.a.t = "tuple"
             /\ Len(last.args.a.items) = 2 /\ last.args.a.items[1].t = "bool"
       \/ proto = 0 /\ last.op = "util_memo_put" /\ last.args.a.t = "int"

\* the latest call is pack(x, endian=..., signed=True) with no word size
SignedPack ==
    /\ last.op = "pack" /\ last.args.word_size = NoneSize /\ last.args.signed
    /\ last.args.endian \in DOMAIN _endian_dict

\* the bytes returned, least significant first
LittleEndian ==
    IF _endian_dict[last.args.endian] = "little" THEN last.ret ELSE Reverse(last.ret)

\* the results spelt out for pack(x, endian='<', signed=True)
PackSpelt ==
    {<<Z(-256), <<0, 255>>>>, <<Z(255), <<255, 0>>>>, <<Z(-128), <<128>>>>,
     <<Z(-129), <<127, 255>>>>, <<Z(32768), <<0, 128, 0>>>>, <<Z(-32768), <<0, 128>>>>}

\* C12: pack(x, endian='<', signed=True) with no word size returns b'' for
\* 0 and for every other x bytes whose little-endian two's-complement value
\* is x; -256 gives 00 FF, 255 FF 00, -128 80, -129 7F FF, 32768 00 80 00
\* and -32768 00 80.
PackTwosComplement ==
    (SignedPack /\ last.args.endian = "<") =>
        /\ last.exc = ""
        /\ IF last.args.x = Z(0) THEN last.ret = <<>>
           ELSE last.ret # <<>> /\ from_bytes(last.ret, TRUE) = last.args.x
        /\ \A e \in PackSpelt : last.args.x = e[1] => last.ret = e[2]

\* -32768 came back as 00 80
PackTwosComplementWitness ==
    /\ SignedPack /\ last.args.endian = "<" /\ last.args.x = Z(-32768)
    /\ last.ret = <<0, 128>>

\* C13: for x # 0 the signed variable-length pack(x) is as short as two's
\* complement allows: its most significant byte is no 0x00 after a byte
\* with the high bit clear and no 0xFF after a byte with the high bit set.
PackMinimal ==
    (SignedPack /\ last.args.x # Z(0)) =>
        /\ last.exc = "" /\ Len(LittleEndian) >= 1
        /\ from_bytes(LittleEndian, TRUE) = last.args.x
        /\ Len(LittleEndian) >= 2 =>
              /\ ~(LittleEndian[Len(LittleEndian)] = 0 /\ LittleEndian[Len(LittleEndian) - 1] < 128)
              /\ ~(LittleEndian[Len(LittleEndian)] = 255
                   /\ LittleEndian[Len(LittleEndian) - 1] >= 128)

\* -2^31 came back in four bytes, the sign byte 0xFF dropped
PackMinimalWitness ==
    /\ SignedPack /\ last.args.x = ZNeg(Pow2(31)) /\ last.exc = ""
    /\ LittleEndian = <<0, 0, 0, 128>>

\* the latest call is pack with a word size, or p8, p16, p32 or p64
WordPack ==
    /\ last.op \in {"pack", "p8", "p16", "p32", "p64"}
    /\ last.args.word_size \in {8, 16, 32, 64}
    /\ last.args.endian \in DOMAIN _endian_dict

\* x fits a word of w bits
Fits(x, w, signed) ==
    IF signed THEN Between(ZNeg(Pow2(w - 1)), x, ZSub(Pow2(w - 1), Z(1)))
    ELSE Between(Z(0), x, ZSub(Pow2(w), Z(1)))

\* C14: pack with word size w in {8, 16, 32, 64}, and p8, p16, p32, p64,
\* return w/8 bytes holding x in the byte order asked for when x is in
\* -2^(w-1)..2^(w-1)-1 (signed) or 0..2^w-1 (unsigned), and fail with
\* struct.error for every other x.
WordPackRange ==
    WordPack =>
        IF Fits(last.args.x, last.args.word_size, last.args.signed)
        THEN /\ last.exc = ""
             /\ Len(last.ret) * 8 = last.args.word_size
             /\ from_bytes(LittleEndian, last.args.signed) = last.args.x
        ELSE last.exc = "struct.error"

\* p64 took -2^63 signed, and p8 refused 256
WordPackRangeWitness ==
    /\ WordPack
    /\ \/ last.op = "p64" /\ last.args.signed /\ last.args.x = ZNeg(Pow2(63))
             /\ last.ret = <<0, 0, 0, 0, 0, 0, 0, 128>>
       \/ last.op = "p8" /\ ~last.args.signed /\ last.args.x = Z(256)
             /\ last.exc = "struct.error"


\* the fixed-width integer operations: opcode, operand width in bytes,
\* signedness, and the range the operand holds
FixedWidth ==
    {[method |-> "push_binint1", opcode |-> "BININT1", width |-> 1, signed |-> FALSE],
     [method |-> "memo_binget", opcode |-> "BINGET", width |-> 1, signed |-> FALSE],
     [method |-> "memo_binput", opcode |-> "BINPUT", width |-> 1, signed |-> FALSE],
     [method |-> "push_binint2", opcode |-> "BININT2", width |-> 2, signed |-> FALSE],
     [method |-> "push_binint", opcode |-> "BININT", width |-> 4, signed |-> TRUE],
     [method |-> "memo_long_binget", opcode |-> "LONG_BINGET", width |-> 4, signed |-> FALSE],
     [method |-> "memo_long_binput", opcode |-> "LONG_BINPUT", width |-> 4, signed |-> FALSE]}

\* the latest call gave an int to the fixed-width operation f and passed the
\* protocol gate
FixedWidthCall(f) == last.op = f.method /\ last.args.a.t = "int" /\ ~(verify /\ Gated)

\* C15: push_binint1, memo_binget and memo_binput accept exactly the
\* integers 0..255, push_binint2 exactly 0..65535, push_binint exactly
\* -2^31..2^31-1, memo_long_binget and memo_long_binput exactly 0..2^32-1;
\* every other integer raises ValueError with nothing appended, and an
\* accepted one appends the opcode followed by the value in little-endian
\* order at the fixed width.
FixedWidthRange ==
    \A f \in FixedWidth :
        FixedWidthCall(f) =>
            IF Fits(last.args.a.z, 8 * f.width, f.signed)
            THEN /\ last.exc = ""
                 /\ Emitted = 1 + f.width
                 /\ SubSeq(payload, 1, Len(last.pre) + 1) = last.pre \o Op(f.opcode).code
                 /\ from_bytes(SubSeq(payload, Len(last.pre) + 2, Len(payload)), f.signed)
                        = last.args.a.z
            ELSE last.exc = "ValueError" /\ payload = last.pre

\* push_binint accepted -2^31, the lowest integer of its range, and appended
\* BININT with the four bytes 00 00 00 80
FixedWidthRangeWitness ==
    /\ FixedWidthCall([method |-> "push_binint", opcode |-> "BININT", width |-> 4, signed |-> TRUE])
    /\ last.args.a.z = ZNeg(Pow2(31))
    /\ last.exc = ""
    /\ SubSeq(payload, Len(last.pre) + 1, Len(payload)) = <<74, 0, 0, 0, 128>>

ShortForms ==
    {[method |-> "push_short_binbytes", opcode |-> "SHORT_BINBYTES", t |-> "bytes"],
     [method |-> "push_short_binstring", opcode |-> "SHORT_BINSTRING", t |-> "str"],
     [method |-> "push_short_binunicode", opcode |-> "SHORT_BINUNICODE", t |-> "str"]}

\* the bytes the short-form operation of the latest call is to carry
ShortData ==
    IF last.op = "push_short_binbytes" THEN [exc |-> "", bytes |-> last.args.a.data]
    ELSE IF last.op = "push_short_binstring"
    THEN str_encode(last.args.a.data, last.args.enc, "strict")
    ELSE str_encode(last.args.a.data, "utf-8", "surrogatepass")

\* the latest call gave a value of its type to the short-form operation f,
\* the value could be encoded, and the call passed the protocol gate
ShortCall(f) ==
    /\ last.op = f.method
    /\ last.args.a.t = f.t
    /\ ShortData.exc = ""
    /\ ~(verify /\ Gated)

\* C16: push_short_binbytes, push_short_binstring and push_short_binunicode
\* accept a value iff its encoded form has at most 255 bytes, whatever its
\* number of characters, and raise ValueError with the buffer unchanged when
\* it has 256 or more; on acceptance they append the opcode, one byte
\* holding the number of data bytes, and the data bytes.
ShortFormLimit ==
    \A f \in ShortForms :
        ShortCall(f) =>
            IF Len(ShortData.bytes) <= 255
            THEN /\ last.exc = ""
                 /\ payload = last.pre \o Op(f.opcode).code \o <<Len(ShortData.bytes)>>
                                  \o ShortData.bytes
                 /\ payload[Len(last.pre) + 2] = Len(payload) - (Len(last.pre) + 2)
            ELSE last.exc = "ValueError" /\ payload = last.pre

\* push_short_binunicode rejected a string of 128 characters whose UTF-8
\* form has 256 bytes
ShortFormLimitWitness ==
    /\ ShortCall([method |-> "push_short_binunicode", opcode |-> "SHORT_BINUNICODE", t |-> "str"])
    /\ Len(last.args.a.data) = 128
    /\ Len(ShortData.bytes) = 256
    /\ last.exc = "ValueError"
    /\ payload = last.pre

\* what util_push appends for the value v at the protocol of the assembler
Encoding(v) == call(Self(proto, verify, <<>>), "util_push", A1(v))

\* the encodings of the values of a sequence, one after the other
Encodings(items) == Flatten([i \in 1..Len(items) |-> Encoding(items[i]).payload])

\* the latest call is util_push of a container of type t whose items can all
\* be pushed at the protocol of the assembler
ContainerPush(t) ==
    /\ last.op = "util_push"
    /\ last.args.a.t = t
    /\ \A i \in 1..Len(last.args.a.items) : Encoding(last.args.a.items[i]).exc = ""

\* TUPLE1, TUPLE2, TUPLE3 by the number of items
TupleN(n) == Op(<<"TUPLE1", "TUPLE2", "TUPLE3">>[n]).code

\* C17: util_push of a tuple t at protocol p appends, for empty t, MARK TUPLE
\* if p = 0 and EMPTY_TUPLE alone otherwise; for 1 <= len(t) <= 3 and
\* p >= 2, the encodings of the elements in order and then TUPLE1, TUPLE2
\* or TUPLE3 by len(t), without MARK; in every other case MARK, the
\* encodings of the elements in order, then TUPLE.
TupleEncoding ==
    ContainerPush("tuple") =>
        /\ last.exc = ""
        /\ payload = last.pre \o
              (IF last.args.a.items = <<>>
               THEN (IF proto = 0 THEN Op("MARK").code \o Op("TUPLE").code
                     ELSE Op("EMPTY_TUPLE").code)
               ELSE IF Len(last.args.a.items) <= 3 /\ proto >= 2
               THEN Encodings(last.args.a.items) \o TupleN(Len(last.args.a.items))
               ELSE Op("MARK").code \o Encodings(last.args.a.items) \o Op("TUPLE").code)

\* util_push((1, 2, 3)) at protocol 2 or later appended BININT1 1, BININT1 2,
\* BININT1 3, TUPLE3
TupleEncodingWitness ==
    /\ ContainerPush("tuple")
    /\ Len(last.args.a.items) = 3
    /\ proto >= 2
    /\ payload = last.pre \o <<75, 1, 75, 2, 75, 3, 135>>

\* for each entry of a dict in iteration order, the encoding of the key and
\* then the encoding of its value; items holds key, value, key, value, ...
EntryEncodings(items) ==
    Flatten([j \in 1..(Len(items) \div 2) |->
                Encoding(items[2 * j - 1]).payload \o Encoding(items[2 * j]).payload])

\* C18: util_push of a non-empty list appends MARK, the encodings of its
\* elements in order, then LIST; of a non-empty dict MARK, then for each
\* entry in iteration order the encoding of the key and right after it the
\* encoding of its value, then DICT; of an empty list or dict MARK LIST or
\* MARK DICT at protocol 0 and EMPTY_LIST or EMPTY_DICT alone at protocol 1
\* and later.
ListDictEncoding ==
    /\ ContainerPush("list") =>
        /\ last.exc = ""
        /\ payload = last.pre \o
              (IF last.args.a.items # <<>>
               THEN Op("MARK").code \o Encodings(last.args.a.items) \o Op("LIST").code
               ELSE IF proto = 0 THEN Op("MARK").code \o Op("LIST").code
               ELSE Op("EMPTY_LIST").code)
    /\ ContainerPush("dict") =>
        /\ last.exc = ""
        /\ payload = last.pre \o
              (IF last.args.a.items # <<>>
               THEN Op("MARK").code \o EntryEncodings(last.args.a.items) \o Op("DICT").code
               ELSE IF proto = 0 THEN Op("MARK").code \o Op("DICT").code
               ELSE Op("EMPTY_DICT").code)

\* util_push({1: [2, (3,)], 'k': {}}) at protocol 2 or later appended MARK,
\* the key 1 and its value, the key 'k' and its value, DICT
ListDictEncodingWitness ==
    /\ ContainerPush("dict")
    /\ Len(last.args.a.items) = 4
    /\ last.args.a.items[4].t = "dict"
    /\ proto \in {2, 3}
    /\ payload = last.pre \o <<40, 75, 1, 40, 75, 2, 75, 3, 133, 108,
                               88, 1, 0, 0, 0, 107, 125, 100>>

\* the method that emits the string opcode of that name
UnicodeMethodOf(name) == CHOOSE m \in UnicodeMethods : _method_name_to_opcode(m).name = name

\* the UTF-8 form of the string the latest call was given
Utf8 == str_encode(last.args.a.data, "utf-8", "surrogatepass").bytes

\* the latest step selected the operation for a string by its UTF-8 length
UnicodeChoice == last.op = "unicode_method"

\* the latest call is util_push of a text string
UnicodePush == last.op = "util_push" /\ last.args.a.t = "str"

\* the opcode the claim as stated names for a string of n UTF-8 bytes at
\* protocol p >= 1: BINUNICODE for every string at protocols 1 to 3
StatedUnicode(p, n) ==
    IF p <= 3 THEN "BINUNICODE"
    ELSE IF ZLt(n, Z(256)) THEN "SHORT_BINUNICODE"
    ELSE IF ZLt(n, Pow2(32)) THEN "BINUNICODE"
    ELSE "BINUNICODE8"

\* the same with the textual form at protocols 1 to 3 from 2^32 bytes on
SelectedUnicode(p, n) ==
    IF p <= 3 /\ ~ZLt(n, Pow2(32)) THEN "UNICODE" ELSE StatedUnicode(p, n)

\* what util_push of a string appends when it emits the opcode of that name
UnicodeBytes(name) ==
    IF name = "SHORT_BINUNICODE" THEN Op(name).code \o <<Len(Utf8)>> \o Utf8
    ELSE IF name = "BINUNICODE" THEN Op(name).code \o Pad(Z(Len(Utf8)).mag, 4) \o Utf8
    ELSE Op(name).code \o Pad(Z(Len(Utf8)).mag, 8) \o Utf8

\* 'bar', LF and two CJK characters
BarText == StrV(<<98, 97, 114, 10, 20013, 25991>>)

\* C19 as stated: util_push of a text string s at protocol p emits UNICODE
\* if p = 0, BINUNICODE with a 4-byte length if 1 <= p <= 3, and at p >= 4
\* SHORT_BINUNICODE if the UTF-8 byte length of s is < 256, BINUNICODE if it
\* is < 2^32, else BINUNICODE8.
UnicodeSelectionStated ==
    /\ UnicodeChoice =>
          last.ret = NameChars(UnicodeMethodOf(StatedUnicode(proto, last.args.length)))
    /\ UnicodePush =>
          /\ last.exc = ""
          /\ IF proto = 0 THEN FirstEmitted = Code("UNICODE")
             ELSE payload = last.pre \o UnicodeBytes(StatedUnicode(proto, Z(Len(Utf8))))

\* C19: util_push of a text string s at protocol p emits UNICODE if p = 0;
\* at 1 <= p <= 3 BINUNICODE with a 4-byte length if the UTF-8 byte length
\* of s is < 2^32 and UNICODE otherwise; at p >= 4 SHORT_BINUNICODE if that
\* length is < 256, BINUNICODE if it is < 2^32, else BINUNICODE8.  The
\* length is the number of UTF-8 bytes, not of characters: 'bar', LF and two
\* CJK characters are emitted at p = 4 as SHORT_BINUNICODE with length
\* byte 10.
UnicodeSelection ==
    /\ UnicodeChoice =>
          last.ret = NameChars(UnicodeMethodOf(SelectedUnicode(proto, last.args.length)))
    /\ UnicodePush =>
          /\ last.exc = ""
          /\ IF proto = 0 THEN FirstEmitted = Code("UNICODE")
             ELSE payload = last.pre \o UnicodeBytes(SelectedUnicode(proto, Z(Len(Utf8))))
          /\ (proto = 4 /\ last.args.a = BarText) =>
                /\ Len(last.args.a.data) = 6
                /\ SubSeq(payload, Len(last.pre) + 1, Len(last.pre) + 2) = <<140, 10>>
                /\ Emitted = 12

\* at a protocol from 1 to 3 the textual operation was selected for a string
\* of 2^32 UTF-8 bytes
UnicodeSelectionWitness ==
    /\ UnicodeChoice
    /\ proto \in 1..3
    /\ last.args.length = Pow2(32)
    /\ last.ret = NameChars("push_unicode")

\* the latest call is util_push of a byte string
BytesPush == last.op = "util_push" /\ last.args.a.t = "bytes"

\* C20: util_push of a byte string b raises PickleProtocolMismatchError and
\* appends nothing when the protocol is below 3; at protocol 3 and later it
\* appends SHORT_BINBYTES, the length in one byte and b if len(b) < 256, and
\* BINBYTES, the length in four bytes and b if 256 <= len(b) < 2^32: 255
\* bytes take the short form, 256 bytes the full form.
BytesSelection ==
    BytesPush =>
        IF proto < 3
        THEN last.exc = "PickleProtocolMismatchError" /\ payload = last.pre
        ELSE /\ last.exc = ""
             /\ payload = last.pre \o
                   (IF Len(last.args.a.data) < 256
                    THEN Op("SHORT_BINBYTES").code \o <<Len(last.args.a.data)>>
                    ELSE Op("BINBYTES").code \o Pad(Z(Len(last.args.a.data)).mag, 4))
                   \o last.args.a.data

\* util_push of 256 bytes at protocol 3 or later appended BINBYTES with the
\* length bytes 00 01 00 00
BytesSelectionWitness ==
    /\ BytesPush
    /\ proto >= 3
    /\ Len(last.args.a.data) = 256
    /\ SubSeq(payload, Len(last.pre) + 1, Len(last.pre) + 5) = <<66, 0, 1, 0, 0>>
    /\ Emitted = 261

\* the latest call is util_push of a bool
BoolPush == last.op = "util_push" /\ last.args.a.t = "bool"

\* the latest call is push_int of a bool, or of the int 0 or 1
SmallPushInt ==
    /\ last.op = "push_int"
    /\ last.args.a.t \in {"bool", "int"}
    /\ last.args.a.z \in {Z(0), Z(1)}

\* b'I01\n' for True and b'I00\n' for False
BoolLiteral(v) == IF v.z = Z(1) THEN <<73, 48, 49, 10>> ELSE <<73, 48, 48, 10>>

\* b'I1\n' for 1 and b'I0\n' for 0
IntLiteral(v) == IF v.z = Z(1) THEN <<73, 49, 10>> ELSE <<73, 48, 10>>

\* C21: util_push of a bool never encodes it as an integer: below protocol 2
\* it appends the four bytes I01\n (True) or I00\n (False), at protocol 2
\* and later the single opcode NEWTRUE or NEWFALSE.  push_int(True) and
\* push_int(False) append the same literals and push_int(1) and push_int(0)
\* append I1\n and I0\n, so a bool and the int of the same value differ in
\* the buffer.
BoolEncoding ==
    /\ BoolPush =>
          /\ last.exc = ""
          /\ payload = last.pre \o
                (IF proto < 2 THEN BoolLiteral(last.args.a)
                 ELSE IF last.args.a.z = Z(1) THEN Op("NEWTRUE").code
                 ELSE Op("NEWFALSE").code)
          /\ payload # last.pre \o Encoding(IntV(last.args.a.z)).payload
    /\ SmallPushInt =>
          /\ last.exc = ""
          /\ payload = last.pre \o
                (IF last.args.a.t = "bool" THEN BoolLiteral(last.args.a)
                 ELSE IntLiteral(last.args.a))

\* util_push(True) below protocol 2 appended I01\n
BoolEncodingWitness ==
    /\ BoolPush
    /\ proto < 2
    /\ last.args.a.z = Z(1)
    /\ payload = last.pre \o <<73, 48, 49, 10>>

\* the latest call is util_memo_get or util_memo_put
MemoCall == last.op \in {"util_memo_get", "util_memo_put"}

\* the memo operation the selection rule names for the index z at protocol p
SelectedMemo(p, z) ==
    IF p = 0 \/ ~ZLe(z, ZSub(Pow2(32), Z(1))) THEN "textual"
    ELSE IF ZLe(z, Z(255)) THEN "one byte"
    ELSE "four bytes"

\* the opcode of that memo operation for the latest call
MemoOpcode(form) ==
    IF last.op = "util_memo_get"
    THEN (CASE form = "textual" -> "GET" [] form = "one byte" -> "BINGET"
            [] form = "four bytes" -> "LONG_BINGET")
    ELSE (CASE form = "textual" -> "PUT" [] form = "one byte" -> "BINPUT"
            [] form = "four bytes" -> "LONG_BINPUT")

\* the operand of that memo operation for the index v
MemoOperand(form, v) ==
    CASE form = "textual" -> str_ascii(v) \o <<10>>
      [] form = "one byte" -> Pad(v.z.mag, 1)
      [] form = "four bytes" -> Pad(v.z.mag, 4)

\* C22: util_memo_get(i) and util_memo_put(i) raise TypeError for an i that
\* is no int and ValueError for a negative i, the buffer unchanged, and
\* otherwise append exactly one memo operation: the textual GET / PUT at
\* protocol 0; at protocol 1 and later BINGET / BINPUT if i <= 255,
\* LONG_BINGET / LONG_BINPUT if 256 <= i <= 2^32-1, and the textual
\* GET / PUT if i >= 2^32.
MemoSelection ==
    MemoCall =>
        IF ~isinstance(last.args.a, "int")
        THEN last.exc = "TypeError" /\ payload = last.pre
        ELSE IF ZLt(last.args.a.z, Z(0))
        THEN last.exc = "ValueError" /\ payload = last.pre
        ELSE /\ last.exc = ""
             /\ payload = last.pre
                    \o Op(MemoOpcode(SelectedMemo(proto, last.args.a.z))).code
                    \o MemoOperand(SelectedMemo(proto, last.args.a.z), last.args.a)

\* util_memo_get(255) at protocol 1 or later appended BINGET 255
MemoSelectionWitness ==
    /\ MemoCall
    /\ last.op = "util_memo_get"
    /\ proto >= 1
    /\ last.args.a = IntV(Z(255))
    /\ payload = last.pre \o <<104, 255>>

\* the methods the loop over dir(PickleAssembler) puts the gate around
Decorated == {m \in {e[1] : e \in Range(NameTable)} \ OpcodeNames : _is_opcode_method(m)}

\* the names of the opcodes of the emission methods
ExposedNames == {_method_name_to_opcode(m).name : m \in Decorated}

\* an emission method that returned has appended the code of its opcode
EmitsItsOpcode ==
    (_is_opcode_method(last.op) /\ last.exc = "") =>
        IsPrefix(last.pre \o _method_name_to_opcode(last.op).code, payload)

\* the opcodes of the table that no emission method has: PROTO and STOP are
\* written by the constructor and by assemble
Unexposed ==
    {"PROTO", "STOP", "PERSID", "BINPERSID", "EXT1", "EXT2", "EXT4", "FRAME", "NEXT_BUFFER",
     "READONLY_BUFFER"}

\* C23 as stated: a new assembler has an emission method for every Opcode of
\* the table, PERSID, BINPERSID, EXT1, EXT2, EXT4, FRAME, NEXT_BUFFER and
\* READONLY_BUFFER included: each is the opcode of some push_*, build_*,
\* pop* or memo_* method, which appends it.
EveryOpcodeExposed ==
    /\ EmitsItsOpcode
    /\ last.op = "__init__" => ExposedNames = OpcodeNames

\* C23: every Opcode of the table other than PROTO, STOP, PERSID, BINPERSID,
\* EXT1, EXT2, EXT4, FRAME, NEXT_BUFFER and READONLY_BUFFER is the opcode of
\* some push_*, build_*, pop* or memo_* method of a new assembler, which
\* appends it; those ten are the opcode of none.
OpcodesExposed ==
    /\ EmitsItsOpcode
    /\ last.op = "__init__" =>
          /\ Decorated = OpcodeMethods
          /\ ExposedNames = OpcodeNames \ Unexposed

\* memo_memoize, the method of the opcode MEMOIZE, appended it
OpcodesExposedWitness ==
    /\ _is_opcode_method(last.op)
    /\ _method_name_to_opcode(last.op) = Op("MEMOIZE")
    /\ last.exc = ""
    /\ payload = last.pre \o <<148>>

\* the latest call is one of the textual integer operations and was accepted
TextualCall == last.op \in {"push_long", "memo_get", "memo_put"} /\ last.exc = ""

\* the bytes the latest call appended after the opcode and before the last one
Operand == SubSeq(payload, Len(last.pre) + 2, Len(payload) - 1)

\* the operand without the sign of a negative value
Digits == IF last.args.a.z.neg THEN SubSeq(Operand, 2, Len(Operand)) ELSE Operand

\* C24: for every value push_long, memo_get and memo_put accept, True and
\* False included, the bytes appended between the opcode and the closing
\* newline are the ASCII decimal digits of the value, with '-' before them
\* for a negative push_long value.
TextualDecimal ==
    TextualCall =>
        /\ FirstEmitted = _method_name_to_opcode(last.op).code[1]
        /\ payload[Len(payload)] = 10
        /\ last.args.a.z.neg => (Operand # <<>> /\ Operand[1] = 45)
        /\ Digits # <<>>
        /\ \A i \in 1..Len(Digits) : Digits[i] \in 48..57
        /\ MagFromDecimal(Digits) = last.args.a.z.mag

\* a value of a type util_push does not know, or a container with one inside
RECURSIVE HoldsUnsupported(_)
HoldsUnsupported(v) ==
    \/ v.t \notin {"NoneType", "bool", "int", "float", "bytes", "str", "tuple", "list", "dict"}
    \/ \E i \in 1..Len(v.items) : HoldsUnsupported(v.items[i])

\* what util_push reaches first in v, going through containers in order: a
\* value of an unknown type ("unsupported"), a byte string ("bytes"), or
\* neither ("")
RECURSIVE FirstStop(_)
FirstStop(v) ==
    IF v.t = "bytes" THEN "bytes"
    ELSE IF v.t \notin {"NoneType", "bool", "int", "float", "str", "tuple", "list", "dict"}
    THEN "unsupported"
    ELSE IF \A i \in 1..Len(v.items) : FirstStop(v.items[i]) = "" THEN ""
    ELSE FirstStop(v.items[CHOOSE i \in 1..Len(v.items) :
                              /\ FirstStop(v.items[i]) # ""
                              /\ \A j \in 1..(i - 1) : FirstStop(v.items[j]) = ""])

\* the latest call is util_push of a value with an unsupported value in it
UnsupportedPush == last.op = "util_push" /\ HoldsUnsupported(last.args.a)

\* C25 as stated: util_push of a value that is none of None, bool, int,
\* float, bytes, str, tuple, list, dict, at top level or inside a container,
\* raises TypeError at every protocol and with either verify setting.
UnsupportedAlwaysTypeError == UnsupportedPush => last.exc = "TypeError"

\* C25: util_push of such a value raises TypeError at every protocol and
\* with either verify setting, unless the protocol is below 3 and the
\* traversal reaches a byte string before the unsupported value: then the
\* call raises PickleProtocolMismatchError.
UnsupportedTypeError ==
    UnsupportedPush =>
        IF proto < 3 /\ FirstStop(last.args.a) = "bytes"
        THEN last.exc = "PickleProtocolMismatchError"
        ELSE last.exc = "TypeError"

\* util_push([1, frozenset()]) raised TypeError
UnsupportedTypeErrorWitness ==
    /\ UnsupportedPush
    /\ last.args.a.t = "list"
    /\ FirstStop(last.args.a) = "unsupported"
    /\ last.exc = "TypeError"

\* the layout of the operand of each opcode that has one: "line" is text up
\* to a newline, "lines" two of them, a number n is n bytes, "count n" is a
\* length in n bytes and then that many bytes
OperandOf(name) ==
    CASE name \in {"INT", "LONG", "FLOAT", "STRING", "UNICODE", "GET", "PUT", "PERSID"} ->
             [kind |-> "line", n |-> 1]
      [] name \in {"GLOBAL", "INST"} -> [kind |-> "line", n |-> 2]
      [] name \in {"BININT1", "BINGET", "BINPUT", "PROTO", "EXT1"} -> [kind |-> "fixed", n |-> 1]
      [] name \in {"BININT2", "EXT2"} -> [kind |-> "fixed", n |-> 2]
      [] name \in {"BININT", "LONG_BINGET", "LONG_BINPUT", "EXT4"} -> [kind |-> "fixed", n |-> 4]
      [] name \in {"BINFLOAT", "FRAME"} -> [kind |-> "fixed", n |-> 8]
      [] name \in {"SHORT_BINSTRING", "SHORT_BINBYTES", "SHORT_BINUNICODE", "LONG1"} ->
             [kind |-> "count", n |-> 1]
      [] name \in {"BINSTRING", "BINUNICODE", "BINBYTES", "LONG4"} -> [kind |-> "count", n |-> 4]
      [] name \in {"BINUNICODE8", "BINBYTES8", "BYTEARRAY8"} -> [kind |-> "count", n |-> 8]
      [] OTHER -> [kind |-> "fixed", n |-> 0]

\* the position after the n-th newline at or after pos, 0 if there is none
RECURSIVE AfterLines(_, _, _)
AfterLines(data, pos, n) ==
    IF n = 0 THEN pos
    ELSE IF \A i \in pos..Len(data) : data[i] # 10 THEN 0
    ELSE AfterLines(data, 1 + CHOOSE i \in pos..Len(data) :
                                  data[i] = 10 /\ \A j \in pos..(i - 1) : data[j] # 10, n - 1)

\* the length written in the n bytes from pos on, -1 if the bytes are not
\* there or the length is 2^24 or more
CountAt(data, pos, n) ==
    IF pos + n - 1 > Len(data) \/ \E i \in 3..(n - 1) : data[pos + i] # 0 THEN -1
    ELSE data[pos] + (IF n >= 2 THEN 256 * data[pos + 1] ELSE 0)
                   + (IF n >= 3 THEN 65536 * data[pos + 2] ELSE 0)

\* the position after the operation that starts at pos, 0 if its operand is
\* cut short
AfterOperation(data, pos, operand) ==
    IF operand.kind = "line" THEN AfterLines(data, pos + 1, operand.n)
    ELSE IF operand.kind = "fixed"
    THEN (IF pos + operand.n <= Len(data) THEN pos + 1 + operand.n ELSE 0)
    ELSE IF CountAt(data, pos + 1, operand.n) < 0
            \/ pos + operand.n + CountAt(data, pos + 1, operand.n) > Len(data)
    THEN 0
    ELSE pos + 1 + operand.n + CountAt(data, pos + 1, operand.n)

\* data from pos on is a sequence of operations of the table, each with a
\* minimum protocol of at most p; the operand of the last one may be cut
\* short, as an exception in the middle of a method leaves it
RECURSIVE Legal(_, _, _)
Legal(data, pos, p) ==
    \/ pos = Len(data) + 1
    \/ /\ pos \in 1..Len(data)
       /\ \E o \in Range(OpcodeTable) :
             /\ o.code = <<data[pos]>>
             /\ o.proto <= p
             /\ \/ AfterOperation(data, pos, OperandOf(o.name)) = 0
                \/ Legal(data, AfterOperation(data, pos, OperandOf(o.name)), p)

\* the bytes the latest call wrote: the header for the constructor
Written ==
    IF last.op = "__init__" THEN payload ELSE SubSeq(payload, Len(last.pre) + 1, Len(payload))

\* the latest call gave push_global or build_inst a name with a newline in
\* it: the text after the newline belongs to the operand as written, though
\* a reader takes it for operations
TextOperand ==
    /\ last.op \in {"push_global", "build_inst"}
    /\ \E i \in 1..Len(last.args.a.data \o last.args.b.data) :
          (last.args.a.data \o last.args.b.data)[i] = 10

Long1Range(z) == Between(ZNeg(Pow2(2039)), z, ZSub(Pow2(2039), Z(1)))

\* the latest call gave an int to push_long1 and passed the protocol gate
Long1Call == last.op = "push_long1" /\ isinstance(last.args.a, "int") /\ ~(verify /\ Gated)

\* the latest step is the length check of push_long4
Long4Check == last.op = "push_long4_check"

\* push_long1 accepts exactly the integers of Long1Range, writing LONG1, the
\* number of bytes in one byte and the signed little-endian bytes; at
\* protocol 2 and later util_push of an int outside the BININT forms selects
\* LONG1 exactly in that range and LONG4 outside it, and it does not raise
Long1Exact ==
    /\ Long1Call =>
          IF Long1Range(last.args.a.z)
          THEN /\ last.exc = ""
               /\ FirstEmitted = Code("LONG1")
               /\ payload[Len(last.pre) + 2] = Emitted - 2
               /\ from_bytes(SubSeq(payload, Len(last.pre) + 3, Len(payload)), TRUE)
                      = last.args.a.z
          ELSE last.exc = "ValueError" /\ payload = last.pre
    /\ IntPush => last.exc = ""
    /\ (IntPush /\ proto >= 2 /\ ~Between(ZNeg(Pow2(31)), last.args.a.z, ZSub(Pow2(31), Z(1)))) =>
          FirstEmitted = (IF Long1Range(last.args.a.z) THEN Code("LONG1") ELSE Code("LONG4"))

\* C27 as stated: push_long1 accepts exactly the integers v with
\* -2^2039 <= v <= 2^2039-1 and rejects 2^2039 and -2^2039-1; this is
\* exactly the range in which util_push selects LONG1, so util_push of an
\* integer never fails with an out-of-range error: LONG4, selected outside
\* the range, rejects nothing.
IntPushNeverOutOfRange ==
    /\ Long1Exact
    /\ Long4Check => last.exc = ""

\* C27: push_long1 accepts exactly the integers v with
\* -2^2039 <= v <= 2^2039-1 and rejects 2^2039 and -2^2039-1; this is
\* exactly the range in which util_push selects LONG1, so util_push of an
\* integer never fails with an out-of-range error unless its packed form has
\* 2^31 bytes or more: LONG4, selected outside the range, raises ValueError
\* for exactly those.
IntPushOutOfRange ==
    /\ Long1Exact
    /\ Long4Check => (last.exc = "ValueError" <=> ZLe(Pow2(31), last.args.length))
    /\ Long4Check => last.exc \in {"", "ValueError"}

\* push_long1 accepted -2^2039 with 255 bytes
IntPushOutOfRangeWitness ==
    /\ Long1Call
    /\ last.args.a.z = ZNeg(Pow2(2039))
    /\ last.exc = ""
    /\ Emitted = 257

\* the latest call is push_unicode of a str
UnicodeCall == last.op = "push_unicode" /\ last.args.a.t = "str"

\* what push_unicode writes for one character: the escape of a backslash,
\* NUL, LF, CR or SUB, and the raw-unicode-escape form of any other
EscapedChar(c) ==
    IF c \in {92, 0, 10, 13, 26} THEN <<92, 117>> \o Hex(c, 4) ELSE raw_unicode_escape_char(c)

\* the operand push_unicode writes for the string s
Escaped(s) == Flatten([i \in 1..Len(s) |-> EscapedChar(s[i])])

\* C28: push_unicode replaces each backslash, NUL, LF, CR and SUB by its
\* six-character \uXXXX escape, the backslash first, so that the backslashes
\* the other four substitutions bring in are not escaped again; the bytes
\* between the UNICODE opcode and the closing newline hold no LF, and two
\* different strings never give the same bytes.
UnicodeEscapes ==
    UnicodeCall =>
        /\ last.exc = ""
        /\ payload = last.pre \o Op("UNICODE").code \o Escaped(last.args.a.data) \o <<10>>
        /\ \A i \in 1..Len(Operand) : Operand[i] # 10
        /\ \A s \in StrInputs :
              s # last.args.a.data =>
                  func("push_unicode", before, A1(StrV(s))).payload # payload
        /\ raw_unicode_escape_decode(Operand).ok
        /\ raw_unicode_escape_decode(Operand).out = last.args.a.data

\* push_unicode of NUL, CR, SUB appended \u0000\u000d\u001a with single
\* backslashes
UnicodeEscapesWitness ==
    /\ UnicodeCall
    /\ last.args.a.data = <<0, 13, 26>>
    /\ Operand = <<92, 117, 48, 48, 48, 48, 92, 117, 48, 48, 48, 100, 92, 117, 48, 48, 49, 97>>

\* the latest call, on an assembler with verify=True, is of an emission
\* method whose opcode needs a later protocol, with an argument the method
\* refuses at a protocol that allows it
GatedBadArgument == verify /\ Gated /\ Allowed.exc # ""

\* C29: with verify=True and a protocol below the emission method's minimum
\* the protocol check runs before any argument check: a call whose argument
\* is of the wrong type or out of range as well, such as push_binint1(256)
\* at protocol 0, raises PickleProtocolMismatchError, never the type or
\* range error, and appends nothing.
ProtocolCheckFirst ==
    GatedBadArgument =>
        /\ last.exc = "PickleProtocolMismatchError"
        /\ payload = last.pre

\* push_binint1(256) at protocol 0 raised PickleProtocolMismatchError, though
\* 256 is out of range
ProtocolCheckFirstWitness ==
    /\ GatedBadArgument
    /\ proto = 0
    /\ last.op = "push_binint1"
    /\ last.args.a = IntV(Z(256))
    /\ Allowed.exc = "ValueError"
    /\ last.exc = "PickleProtocolMismatchError"

\* the latest call is of an opcode emission method
EmissionCall == _is_opcode_method(last.op)

\* C30: for every opcode emission method the opcode whose minimum protocol
\* the gate checks, looked up from the method's name, is the opcode whose
\* code is the first byte the method appends when it succeeds: with
\* verify=True the call raises PickleProtocolMismatchError exactly when the
\* protocol is below the minimum of the opcode it would write first.
GateChecksEmittedOpcode ==
    EmissionCall =>
        /\ last.exc = "" =>
              /\ Emitted >= 1
              /\ <<FirstEmitted>> = _method_name_to_opcode(last.op).code
        /\ Allowed.exc = "" =>
              /\ <<Allowed.payload[Len(last.pre) + 1]>> = _method_name_to_opcode(last.op).code
              /\ (last.exc = "PickleProtocolMismatchError") <=>
                    (verify /\ proto < Op(CHOOSE n \in OpcodeNames :
                                             Op(n).code = <<Allowed.payload[Len(last.pre) + 1]>>).proto)

\* pop_mark, gated by the minimum protocol 1 of POP_MARK, appended the code
\* of POP_MARK
GateChecksEmittedOpcodeWitness ==
    /\ EmissionCall
    /\ last.op = "pop_mark"
    /\ last.exc = ""
    /\ payload = last.pre \o <<49>>
    /\ _method_name_to_opcode(last.op).proto = 1

====
